---------------------------- MODULE Spec2Model ----------------------------
(***************************************************************************)
(* Model of the bikesul-backend catalogue synchronisation service:         *)
(*   - extractACFPricing        (tiered price resolution)                  *)
(*   - processProductForResponse (persisted row -> API record)             *)
(*   - fetchVariationsFromWoo and GET /sync-products (the sync run)        *)
(* in the variants found in src/index.js, src/unnamed/part_001 (second     *)
(* server file, lines 339-993) and src/unnamed/part_002.                   *)
(*                                                                         *)
(* JavaScript numbers are fixed-point here, in tenths: Num(155) is 15.5,   *)
(* Num(30) is 3.                                                           *)
(***************************************************************************)
EXTENDS Integers, Sequences, FiniteSets, TLC

VARIABLES
    acfIn,      \* extractACFPricing: argument acfData
    metaIn,     \* extractACFPricing: argument metaData
    pricingOut, \* extractACFPricing: the call made and the object returned
    rowIn,      \* processProductForResponse: argument dbProduct
    respOut,    \* processProductForResponse: the call made and the record returned
    query,      \* the read request served last: GET /products or GET /products/:id
    answer,     \* the response sent to it
    upstream,   \* the remote catalogue and the requests and writes that fail
    deployed,   \* the server file that is running
    store,      \* table products: the rows, in insertion order
    now,        \* the database clock, NOW()
    sync,       \* per /sync-products request: position and local variables
    requests,   \* history: remote requests answered, in order
    outcomes,   \* history: what became of each product of each page
    responses   \* history: per request, the response sent and the table then

pricingVars == <<acfIn, metaIn, pricingOut>>
readVars == <<rowIn, respOut, query, answer>>

syncVars == <<upstream, deployed, store, now, sync, requests, outcomes, responses>>

vars == <<acfIn, metaIn, pricingOut, rowIn, respOut, query, answer,
          upstream, deployed, store, now, sync, requests, outcomes, responses>>

---------------------------------------------------------------------------
(* JavaScript scalar values, all of one record shape.                      *)

Undef == [k |-> "undefined", n |-> 0, s |-> ""]
Null == [k |-> "null", n |-> 0, s |-> ""]
NaN == [k |-> "nan", n |-> 0, s |-> ""]
Num(x) == [k |-> "number", n |-> x, s |-> ""]
Str(t) == [k |-> "string", n |-> 0, s |-> t]
\* a property that an object does not own; reading it yields undefined
Absent == [k |-> "absent", n |-> 0, s |-> ""]

\* ToBoolean: what `if (v)`, `!v`, `a || b` test
Truthy(v) ==
    CASE v.k = "number" -> v.n # 0
      [] v.k = "string" -> v.s # ""
      [] OTHER -> FALSE

\* a || b
Or(a, b) == IF Truthy(a) THEN a ELSE b

\* StringToNumber of the string literals the model uses (ECMAScript Number(s)):
\* the empty string is 0, a decimal literal is its value, anything else NaN.
StringToNumber(t) ==
    CASE t = "" -> Num(0)
      [] t = "0" -> Num(0)
      [] t = "2" -> Num(20)
      [] t = "3" -> Num(30)
      [] t = "12" -> Num(120)
      [] t = "15.5" -> Num(155)
      [] t = "-3" -> Num(-30)
      [] OTHER -> NaN

\* Number(v)
ToNumber(v) ==
    CASE v.k = "number" -> v
      [] v.k = "null" -> Num(0)
      [] v.k = "string" -> StringToNumber(v.s)
      [] OTHER -> NaN

\* parseFloat(v): the argument is first turned into a string, so null,
\* undefined and the empty string give NaN; a leading decimal prefix counts.
ParseFloat(v) ==
    CASE v.k = "number" -> v
      [] v.k = "string" /\ v.s = "12abc" -> Num(120)
      [] v.k = "string" /\ v.s # "" -> StringToNumber(v.s)
      [] OTHER -> NaN

IsNaN(v) == v.k = "nan"

\* Number.isFinite(v) for the values of the model (no infinities)
IsFinite(v) == v.k = "number"

---------------------------------------------------------------------------
(* extractACFPricing.                                                      *)
(* acfData is [k, f]: k its JavaScript kind and f its three tier fields    *)
(* (a field the object does not own reads as undefined).  metaData is     *)
(* [k, items]; an item is [k, key, name, value, val].                      *)

Tiers == {"precio_1_2", "precio_3_6", "precio_7_mais"}

NoPricing == [t \in Tiers |-> Absent]

\* pricing.<tier> as an expression: undefined when the key was never set
Get(pricing, t) == IF pricing[t] = Absent THEN Undef ELSE pricing[t]

\* Object.keys(pricing).length
KeysLength(pricing) == Cardinality({t \in Tiers : pricing[t] # Absent})

\* acfData && typeof acfData === 'object'
AcfIsObject(acfData) == acfData.k = "object"

\* v !== undefined && v !== null && v !== ''
NotEmptyValue(v) == ~(v.k \in {"undefined", "null"}) /\ ~(v.k = "string" /\ v.s = "")

\* key === '<tier>' || key === '_<tier>'
TierKeyNoUnderscore(key, t) == key.k = "string" /\ key.s = t

TierKey(key, t) == key.k = "string" /\ (key.s = t \/ key.s = "_" \o t)

\* Object.keys(pricing).length === 0 && Array.isArray(metaData)
ScanAlways(pricing, metaData) == metaData.k = "array"

ScanMetaData(pricing, metaData) == KeysLength(pricing) = 0 /\ metaData.k = "array"

\* the outcome of a call: an exception, or the object returned
Returned(pricing) == [threw |-> FALSE, pricing |-> pricing]
Threw == [threw |-> TRUE, pricing |-> NoPricing]

\* ---- src/unnamed/part_001, lines 400-444
AcfPricing_part001(acfData) ==
    IF AcfIsObject(acfData)
    THEN [t \in Tiers |->
            IF NotEmptyValue(acfData.f[t]) THEN ToNumber(acfData.f[t]) ELSE Absent]
    ELSE NoPricing

\* !isNaN(numVal) && numVal > 0
AcceptsZero(numVal) == ~IsNaN(numVal) /\ numVal.n >= 0

AcceptedNumber(numVal) == ~IsNaN(numVal) /\ numVal.n > 0

MetaStep_part001(pricing, meta) ==
    IF meta.k # "object" THEN Returned(pricing)
    ELSE LET key == Or(Or(meta.key, meta.name), Str(""))
             val == IF meta.value # Undef THEN meta.value ELSE meta.val
         IN  IF ~NotEmptyValue(val) THEN Returned(pricing)
             ELSE Returned([t \in Tiers |->
                      IF TierKey(key, t) /\ AcceptedNumber(ToNumber(val))
                      THEN ToNumber(val) ELSE pricing[t]])

MetaStep_part002(pricing, meta) ==
    IF meta.k \in {"null", "undefined"} THEN Threw   \* meta.key of null: TypeError
    ELSE LET key == Or(Or(meta.key, meta.name), Str(""))
             val == IF meta.value # Undef THEN meta.value ELSE meta.val
         IN  IF ~Truthy(val) THEN Returned(pricing)
             ELSE Returned([t \in Tiers |-> IF TierKey(key, t) THEN val ELSE pricing[t]])

MetaStep_index(pricing, meta) ==
    IF meta.k \in {"null", "undefined"} THEN Threw
    ELSE Returned([t \in Tiers |-> IF TierKey(meta.key, t) THEN meta.value ELSE pricing[t]])

\* the forEach callback of the variant
MetaStep(variant, pricing, meta) ==
    CASE variant = "part_001" -> MetaStep_part001(pricing, meta)
      [] variant = "part_002" -> MetaStep_part002(pricing, meta)
      [] OTHER -> MetaStep_index(pricing, meta)

\* metaData.forEach(callback): the entries in order, ended by an exception
RECURSIVE ForEachMeta(_, _, _)
ForEachMeta(variant, acc, items) ==
    IF items = <<>> \/ acc.threw THEN acc
    ELSE ForEachMeta(variant, MetaStep(variant, acc.pricing, Head(items)), Tail(items))

extractACFPricing_part001(acfData, metaData) ==
    LET pricing == AcfPricing_part001(acfData)
    IN  IF ScanMetaData(pricing, metaData)
        THEN ForEachMeta("part_001", Returned(pricing), metaData.items)
        ELSE Returned(pricing)

\* ---- src/unnamed/part_002, lines 70-88
AcfPricing_part002(acfData) ==
    IF AcfIsObject(acfData)
    THEN [t \in Tiers |-> IF Truthy(acfData.f[t]) THEN acfData.f[t] ELSE Absent]
    ELSE NoPricing

extractACFPricing_part002(acfData, metaData) ==
    LET pricing == AcfPricing_part002(acfData)
    IN  IF ScanMetaData(pricing, metaData)
        THEN ForEachMeta("part_002", Returned(pricing), metaData.items)
        ELSE Returned(pricing)

\* ---- src/index.js, lines 43-69
AcfPricing_index(acfData) ==
    IF AcfIsObject(acfData)
    THEN [t \in Tiers |-> IF Truthy(acfData.f[t]) THEN acfData.f[t] ELSE Absent]
    ELSE NoPricing

extractACFPricing_index(acfData, metaData) ==
    LET pricing == AcfPricing_index(acfData)
    IN  IF ScanMetaData(pricing, metaData)
        THEN ForEachMeta("index", Returned(pricing), metaData.items)
        ELSE Returned(pricing)

Variants == {"index", "part_001", "part_002"}

extractACFPricing(variant, acfData, metaData) ==
    CASE variant = "part_001" -> extractACFPricing_part001(acfData, metaData)
      [] variant = "part_002" -> extractACFPricing_part002(acfData, metaData)
      [] OTHER -> extractACFPricing_index(acfData, metaData)

---------------------------------------------------------------------------
(* processProductForResponse.                                              *)
(* A JSON column of a row is [k, empty, parses, val]: k the JavaScript kind *)
(* of the value the driver hands over ("string" for text, "array"/"object" *)
(* for a value already decoded), empty: the text is '', parses: JSON.parse *)
(* of the text succeeds, val: the value it yields (or the decoded value).  *)
(* Fields the function only copies (stock, descriptions, sku, images list) *)
(* are left out of the record returned.                                    *)

\* String(v) / v.toString() of a string or a non-negative number
ToStr(v) ==
    CASE v.k = "string" -> v
      [] v.k = "number" /\ v.n % 10 = 0 -> Str(ToString(v.n \div 10))
      [] v.k = "number" -> Str(ToString(v.n \div 10) \o "." \o ToString(v.n % 10))
      [] OTHER -> Str(v.k)

\* typeof value === 'object' for a column value that is not null
ColIsObject(value) == value.k \in {"array", "object"}

\* value || <default>
ColTruthy(value) == ColIsObject(value) \/ (value.k = "string" /\ ~value.empty)

\* parseJSONSafe(value, fallback): part_001 lines 391-398, part_002 lines 60-67
parseJSONSafe(value, fallback) ==
    CASE value.k \in {"undefined", "null"} -> fallback
      [] ColIsObject(value) -> value.val
      [] value.k = "string" -> IF value.parses THEN value.val ELSE fallback
      [] OTHER -> fallback

\* JSON.parse(value || '<default>') of index.js: a decoded array or object is
\* first turned into a string ("", "[object Object]"), which is no JSON text
JsonParseOrDefault(value, default) ==
    CASE ~ColTruthy(value) -> [threw |-> FALSE, val |-> default]
      [] value.k = "string" /\ value.parses -> [threw |-> FALSE, val |-> value.val]
      [] OTHER -> [threw |-> TRUE, val |-> default]

EmptyArray == [k |-> "array", items |-> <<>>]
EmptyAcf == [k |-> "object", f |-> [t \in Tiers |-> Undef]]

\* categories.find(cat => cat && cat.slug && cat.slug !== 'alugueres'): the
\* element found, or undefined
RECURSIVE FindSubcategory(_)
FindSubcategory(items) ==
    IF items = <<>> THEN [found |-> FALSE, slug |-> Undef]
    ELSE LET cat == Head(items)
         IN  IF cat.k = "object" /\ Truthy(cat.slug) /\ cat.slug # Str("alugueres")
             THEN [found |-> TRUE, slug |-> cat.slug]
             ELSE FindSubcategory(Tail(items))

\* categories.find(cat => cat.slug && cat.slug !== "alugueres") of index.js:
\* cat.slug of a null element is a TypeError
RECURSIVE FindSubcategoryUnguarded(_)
FindSubcategoryUnguarded(items) ==
    IF items = <<>> THEN [threw |-> FALSE, found |-> FALSE, slug |-> Undef]
    ELSE LET cat == Head(items)
         IN  IF cat.k # "object" THEN [threw |-> TRUE, found |-> FALSE, slug |-> Undef]
             ELSE IF Truthy(cat.slug) /\ cat.slug # Str("alugueres")
             THEN [threw |-> FALSE, found |-> TRUE, slug |-> cat.slug]
             ELSE FindSubcategoryUnguarded(Tail(items))

Placeholder == Str("/placeholder.svg")

\* the record returned; category is Absent when the record has no such field
Response(degraded, id, name, type, price, image, status, category) ==
    [threw |-> FALSE, degraded |-> degraded, id |-> id, name |-> name, type |-> type,
     price |-> price, image |-> image, status |-> status, category |-> category]

\* an exception leaving the try block
TryThrew ==
    [threw |-> TRUE, degraded |-> FALSE, id |-> Undef, name |-> Undef, type |-> Undef,
     price |-> Undef, image |-> Undef, status |-> Undef, category |-> Absent]

\* parseFloat(x) || 0
ParseFloatOrZero(x) == IF Truthy(ParseFloat(x)) THEN ParseFloat(x) ELSE Num(0)

\* the catch block, the same in the three files: part_001 lines 495-508,
\* part_002 lines 140-153, index.js lines 126-140
Fallback(dbProduct) ==
    Response(TRUE,
             IF dbProduct.id.k \in {"undefined", "null"} \/ ~Truthy(ToStr(dbProduct.id))
                 THEN Str("unknown") ELSE ToStr(dbProduct.id),
             Or(dbProduct.name, Str("Produto sem nome")),
             Str("general"),
             ParseFloat(Or(dbProduct.price, Num(0))),
             Placeholder,
             Or(dbProduct.status, Str("publish")),
             Absent)

\* the try block of part_001 (lines 447-494) and part_002 (lines 92-139), which
\* differ in the extractACFPricing they call
TryProcess(variant, dbProduct) ==
    LET categories == parseJSONSafe(dbProduct.categories, EmptyArray)
        images == parseJSONSafe(dbProduct.images, EmptyArray)
        acfData == parseJSONSafe(dbProduct.acf_data, EmptyAcf)
        metaData == parseJSONSafe(dbProduct.meta_data, EmptyArray)
        subcategory == IF categories.k = "array" THEN FindSubcategory(categories.items)
                       ELSE [found |-> FALSE, slug |-> Undef]
        primaryCategory == IF subcategory.found THEN subcategory.slug ELSE Str("general")
        hasImage == images.k = "array" /\ Len(images.items) > 0
        \* images[0].src: a TypeError when the first element is null
        imageThrows == hasImage /\ images.items[1].k \in {"null", "undefined"}
        mainImage == IF hasImage
                     THEN Or(Or(images.items[1].src, images.items[1].url), Placeholder)
                     ELSE Placeholder
        acfPricing == extractACFPricing(variant, acfData, metaData)
        basePrice == IF NotEmptyValue(dbProduct.price)
                         THEN ParseFloatOrZero(dbProduct.price)
                     ELSE IF NotEmptyValue(dbProduct.regular_price)
                         THEN ParseFloatOrZero(dbProduct.regular_price)
                     ELSE Num(0)
        tier1 == Get(acfPricing.pricing, "precio_1_2")
        calculatedPrice == IF Truthy(tier1) /\ ~IsNaN(ParseFloat(tier1))
                           THEN ParseFloat(tier1) ELSE basePrice
    IN  IF imageThrows \/ acfPricing.threw THEN TryThrew
        ELSE Response(FALSE,
                      IF Truthy(dbProduct.woocommerce_id) THEN ToStr(dbProduct.woocommerce_id)
                      ELSE IF Truthy(dbProduct.id) THEN ToStr(dbProduct.id)
                      ELSE Str("0"),
                      Or(dbProduct.name, Str("")),
                      primaryCategory, calculatedPrice, mainImage,
                      Or(dbProduct.status, Str("publish")),
                      primaryCategory)

\* the try block of index.js, lines 73-125
TryProcess_index(dbProduct) ==
    LET categories == JsonParseOrDefault(dbProduct.categories, EmptyArray)
        images == JsonParseOrDefault(dbProduct.images, EmptyArray)
        acfData == JsonParseOrDefault(dbProduct.acf_data, EmptyAcf)
        metaData == JsonParseOrDefault(dbProduct.meta_data, EmptyArray)
        variationsIds == JsonParseOrDefault(dbProduct.variations_ids, EmptyArray)
        parseThrows == categories.threw \/ images.threw \/ acfData.threw
                           \/ metaData.threw \/ variationsIds.threw
        \* categories.find: a TypeError unless categories is an array
        subcategory == IF categories.val.k = "array"
                       THEN FindSubcategoryUnguarded(categories.val.items)
                       ELSE [threw |-> TRUE, found |-> FALSE, slug |-> Undef]
        primaryCategory == IF subcategory.found THEN subcategory.slug ELSE Str("general")
        \* images.length: a TypeError when images is null
        imageThrows == images.val.k = "null"
        hasImage == /\ images.val.k = "array"
                    /\ Len(images.val.items) > 0
                    /\ images.val.items[1].k = "object"
                    /\ Truthy(images.val.items[1].src)
        mainImage == IF hasImage THEN images.val.items[1].src ELSE Placeholder
        acfPricing == extractACFPricing("index", acfData.val, metaData.val)
        tier1 == Get(acfPricing.pricing, "precio_1_2")
        calculatedPrice == IF Truthy(tier1) THEN ParseFloat(tier1)
                           ELSE IF Truthy(dbProduct.regular_price)
                               THEN ParseFloat(dbProduct.regular_price)
                           ELSE ParseFloat(Or(dbProduct.price, Num(0)))
        \* dbProduct.id.toString(): a TypeError when id is null or undefined
        idThrows == ~Truthy(dbProduct.woocommerce_id)
                        /\ dbProduct.id.k \in {"undefined", "null"}
    IN  IF parseThrows \/ subcategory.threw \/ imageThrows \/ acfPricing.threw \/ idThrows
        THEN TryThrew
        ELSE Response(FALSE,
                      IF Truthy(dbProduct.woocommerce_id) THEN ToStr(dbProduct.woocommerce_id)
                      ELSE ToStr(dbProduct.id),
                      dbProduct.name,
                      primaryCategory, calculatedPrice, mainImage,
                      Or(dbProduct.status, Str("publish")),
                      primaryCategory)

\* try { ... } without its catch
ProcessUncaught(variant, dbProduct) ==
    IF variant = "index" THEN TryProcess_index(dbProduct) ELSE TryProcess(variant, dbProduct)

\* try { ... } catch (err) { return <fallback record> }
processProductForResponse(variant, dbProduct) ==
    LET r == IF variant = "index" THEN TryProcess_index(dbProduct)
             ELSE TryProcess(variant, dbProduct)
    IN  IF r.threw THEN Fallback(dbProduct) ELSE r

---------------------------------------------------------------------------
(* Rows handed to processProductForResponse.                               *)

AcfObject(f) == [k |-> "object", f |-> f]

\* a metadata entry of the remote API: {key, value}
MetaEntry(key, value) ==
    [k |-> "object", key |-> key, name |-> Undef, value |-> value, val |-> Undef]

NullEntry == [k |-> "null", key |-> Undef, name |-> Undef, value |-> Undef, val |-> Undef]

Cat(id, slug) == [k |-> "object", id |-> Num(id * 10), slug |-> Str(slug)]
NullCat == [k |-> "null", id |-> Undef, slug |-> Undef]

Img(src) == [k |-> "object", src |-> Str(src), url |-> Undef]
NullImg == [k |-> "null", src |-> Undef, url |-> Undef]

ArrayOf(items) == [k |-> "array", items |-> items]
JsonNull == [k |-> "null", items |-> <<>>]

\* column values: SQL NULL, text holding JSON, malformed text, '', decoded JSON
ColNull(default) == [k |-> "null", empty |-> FALSE, parses |-> FALSE, val |-> default]
ColText(val) == [k |-> "string", empty |-> FALSE, parses |-> TRUE, val |-> val]
ColMalformed(default) == [k |-> "string", empty |-> FALSE, parses |-> FALSE, val |-> default]
ColEmptyText(default) == [k |-> "string", empty |-> TRUE, parses |-> FALSE, val |-> default]
ColDecoded(val) == [k |-> val.k, empty |-> FALSE, parses |-> FALSE, val |-> val]

MalformedCategories == ColMalformed(EmptyArray)

CategoriesValues ==
    {ColNull(EmptyArray), MalformedCategories, ColEmptyText(EmptyArray),
     ColText(EmptyArray),
     ColText(ArrayOf(<<Cat(319, "alugueres"), Cat(5, "btt")>>)),
     ColText(ArrayOf(<<NullCat>>)),
     ColText(JsonNull),
     ColDecoded(ArrayOf(<<Cat(319, "alugueres")>>))}

ImagesValues ==
    {ColNull(EmptyArray), ColMalformed(EmptyArray),
     ColText(ArrayOf(<<Img("a.jpg")>>)), ColText(ArrayOf(<<NullImg>>))}

AcfDataValues ==
    {ColNull(EmptyAcf),
     ColText(AcfObject([t \in Tiers |-> IF t = "precio_1_2" THEN Str("12") ELSE Undef]))}

MetaDataValues ==
    {ColNull(EmptyArray), ColText(ArrayOf(<<NullEntry>>)),
     ColText(ArrayOf(<<MetaEntry(Str("_precio_1_2"), Str("15.5"))>>))}

VariationsIdsValues == {ColNull(EmptyArray), ColMalformed(EmptyArray)}

RowIdValues == {Null, Num(0), Num(70), Str("")}
WoocommerceIdValues == {Null, Num(1010), Str("")}
PriceValues == {Null, Str(""), Str("12")}
RegularPriceValues == {Null, Str("3")}
NameValues == {Null, Str("Bike")}

RowInputs ==
    [id : RowIdValues, woocommerce_id : WoocommerceIdValues, name : NameValues,
     status : {Str("publish")}, price : PriceValues, regular_price : RegularPriceValues,
     categories : CategoriesValues, images : ImagesValues, acf_data : AcfDataValues,
     meta_data : MetaDataValues, variations_ids : VariationsIdsValues]

NoRow ==
    [id |-> Null, woocommerce_id |-> Null, name |-> Null, status |-> Null, price |-> Null,
     regular_price |-> Null, categories |-> ColNull(EmptyArray),
     images |-> ColNull(EmptyArray), acf_data |-> ColNull(EmptyAcf),
     meta_data |-> ColNull(EmptyArray), variations_ids |-> ColNull(EmptyArray)]

NotCalled == [called |-> FALSE, variant |-> "", threw |-> FALSE, pricing |-> NoPricing]

PricingIdle == acfIn = Null /\ metaIn = Null /\ pricingOut = NotCalled

NoResponse == [called |-> FALSE, variant |-> "", r |-> TryThrew]

\* no read request served yet
NoQuery == [kind |-> "", variant |-> "", id |-> Undef, category |-> Undef]

NoAnswer == [sent |-> FALSE, status |-> 0, rows |-> {}, body |-> {}]

ReadIdle == rowIn = NoRow /\ respOut = NoResponse /\ query = NoQuery /\ answer = NoAnswer

NoUpstream == [products |-> <<>>, page_failing |-> 0]

\* no /sync-products request is made
SyncIdle ==
    /\ upstream = NoUpstream /\ deployed = "" /\ store = <<>> /\ now = 0
    /\ sync = <<>> /\ requests = <<>> /\ outcomes = <<>> /\ responses = <<>>

InitRead ==
    /\ rowIn \in RowInputs
    /\ respOut = NoResponse
    /\ query = NoQuery
    /\ answer = NoAnswer
    /\ PricingIdle
    /\ SyncIdle

CallProcessProductForResponse ==
    /\ ~respOut.called
    /\ \E variant \in Variants :
         respOut' = [called |-> TRUE, variant |-> variant,
                     r |-> processProductForResponse(variant, rowIn)]
    /\ UNCHANGED <<rowIn, query, answer, pricingVars, syncVars>>

NextRead == CallProcessProductForResponse

SpecRead == InitRead /\ [][NextRead]_vars

---------------------------------------------------------------------------
(* Calls of extractACFPricing on bounded inputs.                           *)

\* longest metadata list drawn
MaxMeta == 2

\* values a custom-fields tier may hold
AcfValues == {Undef, Str(""), Num(0), Str("12")}

AcfInputs ==
    {AcfObject(f) : f \in [Tiers -> AcfValues]}
        \cup {[k |-> "null", f |-> [t \in Tiers |-> Undef]],
              [k |-> "string", f |-> [t \in Tiers |-> Undef]]}

MetaKeys == {Str("precio_1_2"), Str("_precio_1_2"), Str("_precio_7_mais")}

MetaValues == {Str("15.5"), Num(20), Str("abc"), Num(0), Num(-30)}

MetaEntries == {MetaEntry(key, value) : key \in MetaKeys, value \in MetaValues} \cup {NullEntry}

SeqsUpTo(S, n) == UNION {[1..m -> S] : m \in 0..n}

MetaInputs ==
    {ArrayOf(items) : items \in SeqsUpTo(MetaEntries, MaxMeta)}
        \cup {[k |-> "null", items |-> <<>>]}

InitPricing ==
    /\ acfIn \in AcfInputs
    /\ metaIn \in MetaInputs
    /\ pricingOut = NotCalled
    /\ ReadIdle
    /\ SyncIdle

CallExtractACFPricing ==
    /\ ~pricingOut.called
    /\ \E variant \in Variants :
         LET r == extractACFPricing(variant, acfIn, metaIn)
         IN  pricingOut' = [called |-> TRUE, variant |-> variant,
                            threw |-> r.threw, pricing |-> r.pricing]
    /\ UNCHANGED <<acfIn, metaIn, readVars, syncVars>>

NextPricing == CallExtractACFPricing

SpecPricing == InitPricing /\ [][NextPricing]_vars

---------------------------------------------------------------------------
(* The sync run: GET /sync-products and fetchVariationsFromWoo, as in      *)
(* src/unnamed/part_002 (lines 157-352) and src/unnamed/part_001 (lines    *)
(* 511-537, 671-836).                                                      *)

\* the rental category
ALUGUERES_CATEGORY_ID == 319

\* per_page of both loops (100 in the source), scaled down
PerPage == 2
\* most products in the remote catalogue
MaxProducts == 3
\* most variations of the product whose stock values are drawn freely
MaxVariations == 4
\* most /sync-products requests made one after the other
MaxRuns == 2

Min(a, b) == IF a < b THEN a ELSE b

\* resp.data of the request for page `page` of a list
PageOf(items, page) == SubSeq(items, (page - 1) * PerPage + 1, Min(page * PerPage, Len(items)))

\* Array.isArray(product.categories) &&
\*   product.categories.some(c => Number(c.id) === ALUGUERES_CATEGORY_ID)
BelongsAlways(product) == TRUE

Belongs(product) ==
    /\ product.categories.k = "array"
    /\ \E i \in DOMAIN product.categories.items :
           ToNumber(product.categories.items[i].id) = Num(ALUGUERES_CATEGORY_ID * 10)

\* product.type === 'variable' ||
\*   (Array.isArray(product.variations) && product.variations.length > 0)
HasVariations(product) ==
    \/ product.type = Str("variable")
    \/ product.variations.k = "array" /\ Len(product.variations.items) > 0

\* products.length < per_page, the break after the product loop
ProductPageNeverShort(len) == FALSE

ProductPageAlwaysShort(len) == TRUE

ShortProductPage(len) == len < PerPage

\* resp.data.length < per_page, the break in fetchVariationsFromWoo
ShortVariationPage(len) == len < PerPage

\* the catch of fetchVariationsFromWoo: the list accumulated is returned
DiscardVariations(all) == <<>>

CatchVariationError(all) == all

\* an element of variationsStock (attributes left out)
VariationStock(v) ==
    [id |-> v.id,
     sku |-> Or(v.sku, Null),
     stock_quantity |-> IF v.stock_quantity.k \in {"undefined", "null"}
                        THEN Null ELSE ToNumber(v.stock_quantity),
     stock_status |-> Or(v.stock_status, Null),
     price |-> IF v.price # Undef THEN v.price ELSE Null,
     regular_price |-> IF v.regular_price # Undef THEN v.regular_price ELSE Null]

\* variations.map(v => ({...}))
VariationsStock(variations) == [i \in DOMAIN variations |-> VariationStock(variations[i])]

\* variationsStock.reduce((acc, vs) => acc + q, 0), in tenths
RECURSIVE SumStock(_)
SumStock(variationsStock) ==
    IF variationsStock = <<>> THEN 0
    ELSE LET n == ToNumber(Head(variationsStock).stock_quantity)
         IN  (IF IsFinite(n) THEN n.n ELSE 0) + SumStock(Tail(variationsStock))

\* aggregatedStock
AggregatedStockNoFallback(variationsStock, product) == Num(SumStock(variationsStock))

AggregatedStock(variationsStock, product) ==
    IF Len(variationsStock) > 0 THEN Num(SumStock(variationsStock))
    ELSE IF product.stock_quantity.k \in {"undefined", "null"} THEN Num(0)
    ELSE ToNumber(product.stock_quantity)

\* JSON.stringify of a list or object, as the JSON column then holds it; a
\* NaN inside is written as null
Stringify(val) == ColText(val)

StringifyStock(variationsStock) ==
    ColText(ArrayOf([i \in DOMAIN variationsStock |->
        [variationsStock[i] EXCEPT
            !.stock_quantity = IF IsNaN(@) THEN Null ELSE @]]))

\* x || [] on a list of the payload
OrEmptyArray(x) == IF x.k = "array" THEN x ELSE EmptyArray

\* variationsIds and variationsStock of a product, from the variations
\* resolved (none when the product is not variable)
VariationsIds(product, fetched, variations) ==
    IF fetched THEN ArrayOf([i \in DOMAIN variations |-> variations[i].id])
    ELSE OrEmptyArray(product.variations)

\* product.price || 0, the price parameter of part_002
PriceAsSent(product) == IF product.price = Undef THEN Null ELSE product.price

PersistedPrice(product) == Or(product.price, Num(0))

\* the parameters of the INSERT of part_002 (lines 295-312); the precio_
\* columns are not part of that statement
Params_part002(product, fetched, variations) ==
    LET variationsStock == IF fetched THEN VariationsStock(variations) ELSE <<>>
    IN  [woocommerce_id |-> product.id,
         name |-> Or(product.name, Str("")),
         type |-> Or(product.type, Str("simple")),
         status |-> Or(product.status, Str("publish")),
         price |-> PersistedPrice(product),
         regular_price |-> Or(product.regular_price, Num(0)),
         stock_quantity |-> AggregatedStock(variationsStock, product),
         categories |-> Stringify(OrEmptyArray(product.categories)),
         images |-> Stringify(OrEmptyArray(product.images)),
         variations_ids |-> Stringify(VariationsIds(product, fetched, variations)),
         acf_data |-> Stringify(IF AcfIsObject(product.acf) THEN product.acf ELSE EmptyAcf),
         meta_data |-> Stringify(OrEmptyArray(product.meta_data)),
         variations_stock |-> StringifyStock(variationsStock),
         precio_1_2 |-> Null, precio_3_6 |-> Null, precio_7_mais |-> Null]

\* priceToUse (part_001 lines 752-753)
RemotePriceOnly(acfPricing, product) ==
    IF product.price # Undef THEN ToNumber(product.price) ELSE Num(0)

PriceToUse(acfPricing, product) ==
    IF Get(acfPricing, "precio_1_2") # Undef
    THEN ToNumber(Get(acfPricing, "precio_1_2"))
    ELSE IF product.price # Undef THEN ToNumber(product.price) ELSE Num(0)

\* the parameters of the INSERT of part_001 (lines 746-805); the type column
\* is not part of that statement
Params_part001(product, fetched, variations) ==
    LET variationsStock == IF fetched THEN VariationsStock(variations) ELSE <<>>
        acfData == IF AcfIsObject(product.acf) THEN product.acf ELSE EmptyAcf
        metaData == OrEmptyArray(product.meta_data)
        acfPricing == extractACFPricing_part001(acfData, metaData).pricing
        priceToUse == PriceToUse(acfPricing, product)
    IN  [woocommerce_id |-> product.id,
         name |-> Or(product.name, Str("")),
         type |-> Null,
         status |-> Or(product.status, Str("publish")),
         price |-> priceToUse,
         regular_price |-> IF product.regular_price # Undef
                           THEN ToNumber(product.regular_price) ELSE Num(0),
         stock_quantity |-> AggregatedStock(variationsStock, product),
         categories |-> Stringify(OrEmptyArray(product.categories)),
         images |-> Stringify(OrEmptyArray(product.images)),
         variations_ids |-> Stringify(VariationsIds(product, fetched, variations)),
         acf_data |-> Stringify(acfData),
         meta_data |-> Stringify(metaData),
         variations_stock |-> StringifyStock(variationsStock),
         precio_1_2 |-> Or(Get(acfPricing, "precio_1_2"), Null),
         precio_3_6 |-> Or(Get(acfPricing, "precio_3_6"), Null),
         precio_7_mais |-> Or(Get(acfPricing, "precio_7_mais"), Null)]

\* the parameters of the INSERT of part_000 (lines 59-75): the payload as
\* it is, no variation is fetched; the variations_stock and precio_ columns
\* are not part of that statement
Params_part000(product, fetched, variations) ==
    [woocommerce_id |-> product.id,
     name |-> product.name,
     type |-> Or(product.type, Str("simple")),
     status |-> Or(product.status, Str("publish")),
     price |-> Or(product.price, Num(0)),
     regular_price |-> Or(product.regular_price, Num(0)),
     stock_quantity |-> Or(product.stock_quantity, Num(0)),
     categories |-> Stringify(OrEmptyArray(product.categories)),
     images |-> Stringify(OrEmptyArray(product.images)),
     variations_ids |-> Stringify(OrEmptyArray(product.variations)),
     acf_data |-> Stringify(IF AcfIsObject(product.acf) THEN product.acf ELSE EmptyAcf),
     meta_data |-> Stringify(OrEmptyArray(product.meta_data)),
     variations_stock |-> ColNull(EmptyArray),
     precio_1_2 |-> Null, precio_3_6 |-> Null, precio_7_mais |-> Null]

Params(variant, product, fetched, variations) ==
    IF variant = "part_001" THEN Params_part001(product, fetched, variations)
    ELSE IF variant = "part_000" THEN Params_part000(product, fetched, variations)
    ELSE Params_part002(product, fetched, variations)

\* ON CONFLICT (woocommerce_id): the rows the insert collides with
InsertOnly(rows, params) == {}

ConflictOnRowId(rows, params) == {i \in DOMAIN rows : rows[i].id = params.woocommerce_id}

Conflict(rows, params) == {i \in DOMAIN rows : rows[i].woocommerce_id = params.woocommerce_id}

\* the row inserted: id from the serial, a column the statement leaves out
\* at its default (NULL)
Inserted(variant, rows, params, t) ==
    [id |-> Num((Len(rows) + 1) * 10),
     woocommerce_id |-> params.woocommerce_id,
     name |-> params.name, type |-> params.type, status |-> params.status,
     price |-> params.price, regular_price |-> params.regular_price,
     stock_quantity |-> params.stock_quantity,
     categories |-> params.categories, images |-> params.images,
     variations_ids |-> params.variations_ids, acf_data |-> params.acf_data,
     meta_data |-> params.meta_data, variations_stock |-> params.variations_stock,
     precio_1_2 |-> params.precio_1_2, precio_3_6 |-> params.precio_3_6,
     precio_7_mais |-> params.precio_7_mais,
     created_at |-> IF variant \in {"part_000", "part_002"} THEN Num(t) ELSE Null,
     updated_at |-> IF variant \in {"part_000", "part_002"} THEN Num(t) ELSE Null]

\* DO UPDATE SET ...: id, woocommerce_id and created_at stay; so does a
\* column the statement leaves out
KeepExisting(variant, old, params, t) == old

Updated(variant, old, params, t) ==
    [Inserted(variant, <<>>, params, t) EXCEPT
        !.id = old.id,
        !.created_at = old.created_at,
        !.type = IF variant \in {"part_000", "part_002"} THEN params.type ELSE old.type,
        !.variations_stock = IF variant = "part_000" THEN old.variations_stock
                             ELSE params.variations_stock,
        !.precio_1_2 = IF variant = "part_001" THEN params.precio_1_2 ELSE old.precio_1_2,
        !.precio_3_6 = IF variant = "part_001" THEN params.precio_3_6 ELSE old.precio_3_6,
        !.precio_7_mais = IF variant = "part_001" THEN params.precio_7_mais
                          ELSE old.precio_7_mais]

\* INSERT ... ON CONFLICT (woocommerce_id) DO UPDATE
ReplaceRows(variant, rows, params, t) == <<Inserted(variant, <<>>, params, t)>>

Upsert(variant, rows, params, t) ==
    IF Conflict(rows, params) = {} THEN Append(rows, Inserted(variant, rows, params, t))
    ELSE [i \in DOMAIN rows |->
            IF i \in Conflict(rows, params) THEN Updated(variant, rows[i], params, t)
            ELSE rows[i]]

---------------------------------------------------------------------------
(* The remote catalogue.  A product carries the fields of the payload     *)
(* the sync reads and, beside them, what the environment does for it:     *)
(* remote_variations (the list /products/<id>/variations pages through),   *)
(* variation_page_failing (the variation page whose request fails, 0 for   *)
(* none), store_rejects (the database refuses its row) and                 *)
(* store_unreachable (the database cannot be reached when its row is sent). *)

Variation(j, stock) ==
    [id |-> Num(j * 10), sku |-> Str("V"), stock_quantity |-> stock,
     stock_status |-> Str("instock"), price |-> Str("12"), regular_price |-> Undef]

RentalCategories == ArrayOf(<<Cat(ALUGUERES_CATEGORY_ID, "alugueres"), Cat(5, "btt")>>)
OtherCategories == ArrayOf(<<Cat(5, "btt")>>)
NoCategories == [k |-> "undefined", items |-> <<>>]

Product(type, categories, stock, variations, failing, rejects) ==
    [id |-> Num(0), name |-> Str("Bike"), type |-> Str(type), status |-> Str("publish"),
     price |-> Str("12"), regular_price |-> Str("15.5"), stock_quantity |-> stock,
     categories |-> categories, images |-> ArrayOf(<<Img("a.jpg")>>),
     variations |-> ArrayOf([j \in DOMAIN variations |-> variations[j].id]),
     acf |-> AcfObject([t \in Tiers |->
                 IF t = "precio_1_2" /\ type = "simple" THEN Str("3") ELSE Undef]),
     meta_data |-> ArrayOf(IF type = "simple" THEN <<>>
                           ELSE <<MetaEntry(Str("_precio_1_2"), Str("15.5"))>>),
     remote_variations |-> variations,
     variation_page_failing |-> failing,
     store_rejects |-> rejects,
     store_unreachable |-> FALSE]

\* n variations with stock 1, 2, ..., n
Stocked(n) == [j \in 1..n |-> Variation(j, Num(j * 10))]

\* the products a catalogue of several is made of
ProductShapes ==
    {Product("simple", RentalCategories, Num(40), <<>>, 0, FALSE),
     Product("simple", OtherCategories, Num(40), <<>>, 0, FALSE),
     Product("simple", RentalCategories, Num(40), <<>>, 0, TRUE),
     Product("variable", RentalCategories, Null, Stocked(PerPage + 1), 0, FALSE),
     Product("variable", RentalCategories, Null, Stocked(PerPage + 1), 2, FALSE)}

\* stock values of a variation: missing, null, numbers, not a number
DrawnStocks == {Undef, Null, Num(0), Num(20), Num(30), Str("abc")}

\* stock values of a product
OwnStocks == {Undef, Null, Num(0), Num(40)}

\* a variable product whose variations' stock values are drawn freely
DrawnStockProducts ==
    {Product("variable", RentalCategories, Num(40),
             [j \in DOMAIN stocks |-> Variation(j, stocks[j])], 0, FALSE) :
        stocks \in SeqsUpTo(DrawnStocks, MaxVariations)}

\* a payload without the acf field
NoAcf == [k |-> "undefined", f |-> [t \in Tiers |-> Undef]]

\* the price field of the payload: a price, none set (''), no such field
RemotePrices == {Str("12"), Str(""), Undef}

\* further products, each synced alone
LoneProducts ==
    {Product(type, RentalCategories, own, <<>>, 0, FALSE) :
        type \in {"simple", "variable"}, own \in OwnStocks}
    \cup {Product("simple", RentalCategories, Num(40), Stocked(1), 0, FALSE)}
    \cup {Product("variable", RentalCategories, Num(40), Stocked(PerPage), failing, rejects) :
            failing \in {0, 1, 2}, rejects \in BOOLEAN}
    \cup {Product("simple", categories, Num(40), <<>>, 0, FALSE) :
            categories \in {NoCategories, EmptyArray}}
    \cup {[Product("simple", RentalCategories, Num(40), <<>>, 0, FALSE) EXCEPT
               !.acf = acf, !.meta_data = meta, !.price = price] :
            acf \in {NoAcf, EmptyAcf},
            meta \in {EmptyArray, ArrayOf(<<MetaEntry(Str("_precio_1_2"), Str("15.5"))>>)},
            price \in RemotePrices}

\* the i-th product of the catalogue has id 100 + i
Catalogue(shapes) == [i \in DOMAIN shapes |-> [shapes[i] EXCEPT !.id = Num((100 + i) * 10)]]

Fixtures ==
    {[products |-> Catalogue(shapes), page_failing |-> failing, runs |-> MaxRuns] :
        shapes \in SeqsUpTo(ProductShapes, MaxProducts), failing \in {0, 1, 2}}
    \cup {[products |-> Catalogue(<<p>>), page_failing |-> 0, runs |-> MaxRuns] :
            p \in LoneProducts}
    \cup {[products |-> Catalogue(<<p>>), page_failing |-> 0, runs |-> 1] :
            p \in DrawnStockProducts}

\* the files whose /sync-products pages through products and variations
SyncVariants == {"part_001", "part_002"}

\* a /sync-products request not yet made
IdleRun ==
    [pc |-> "idle", page |-> 0, totalFetched |-> 0, totalSynced |-> 0, totalErrors |-> 0,
     products |-> <<>>, idx |-> 0, fetched |-> FALSE, vpage |-> 0, all |-> <<>>,
     awaiting |-> FALSE, inflight |-> 0]

NoSummary ==
    [sent |-> FALSE, success |-> FALSE, total_fetched |-> 0, total_synced |-> 0,
     total_errors |-> 0, rows |-> <<>>]

Init ==
    /\ \E fx \in Fixtures :
         /\ upstream = [products |-> fx.products, page_failing |-> fx.page_failing]
         /\ sync = [r \in 1..fx.runs |-> IdleRun]
         /\ responses = [r \in 1..fx.runs |-> NoSummary]
    /\ deployed \in SyncVariants
    /\ store = <<>>
    /\ now = 1
    /\ requests = <<>>
    /\ outcomes = <<>>
    /\ PricingIdle
    /\ ReadIdle

Finished(s) == s.pc \in {"done", "failed"}

\* await axios.get(...): the request leaves and the handler is suspended
\* until it is answered (part_002 lines 211 and 169)
FireAndForget(s) == [s EXCEPT !.inflight = @ + 1]

Await(s) == [s EXCEPT !.inflight = @ + 1, !.awaiting = TRUE]

\* the answer (or the error) arrives and the handler goes on
Resumed(s) == [s EXCEPT !.inflight = @ - 1, !.awaiting = FALSE]

\* the product of the for loop
Current(s) == s.products[s.idx]

\* end of the loop body (part_002 lines 321-324): the next product, the
\* next page, or out of the while loop
RepeatPage(s) ==
    IF s.idx < Len(s.products) THEN [s EXCEPT !.idx = @ + 1, !.pc = "product"]
    ELSE IF ShortProductPage(Len(s.products)) THEN [s EXCEPT !.pc = "respond"]
    ELSE [s EXCEPT !.pc = "page"]

NextProduct(s) ==
    IF s.idx < Len(s.products) THEN [s EXCEPT !.idx = @ + 1, !.pc = "product"]
    ELSE IF ShortProductPage(Len(s.products)) THEN [s EXCEPT !.pc = "respond"]
    ELSE [s EXCEPT !.page = @ + 1, !.pc = "page"]

\* catch (prodErr) (part_002 lines 317-320)
RethrowProductError(s) == [s EXCEPT !.pc = "failed"]

SwallowProductError(s) == NextProduct(s)

CatchProductError(s) == NextProduct([s EXCEPT !.totalErrors = @ + 1])

\* the outer catch (part_002 lines 345-350): the handler ends
SkipFailedPage(s) == [s EXCEPT !.page = @ + 1, !.pc = "page"]

CatchSyncError(s) == [s EXCEPT !.pc = "failed"]

\* the table when the outer catch has answered: each db.query of the loop was
\* a statement of its own on the pool, and the catch issues none
RolledBack(rows) == <<>>

TableAfterSyncError(rows) == rows

\* return all of fetchVariationsFromWoo, and on to the db.query of the caller
FailProduct(s, variations) == CatchProductError(s)

Resolved(s, variations) == [s EXCEPT !.all = variations, !.pc = "upsert"]

Outcome(r, product, result, variations, stock) ==
    [run |-> r, product |-> product.id, result |-> result,
     variations |-> variations, stock_quantity |-> stock]

\* the handler is entered; the CREATE INDEX it tries first changes no row and
\* its failure is swallowed (part_002 lines 203-208).  Requests are made one
\* after the other.
StartSync(r) ==
    /\ sync[r].pc = "idle"
    /\ \A q \in 1..(r - 1) : Finished(sync[q])
    /\ sync' = [sync EXCEPT ![r] = [@ EXCEPT !.pc = "page", !.page = 1]]
    /\ UNCHANGED <<upstream, deployed, store, now, requests, outcomes, responses>>
    /\ UNCHANGED <<pricingVars, readVars>>

\* axios.get of a product page is called (part_002 lines 211-215)
RequestProductPage(r) ==
    /\ sync[r].pc = "page"
    /\ ~sync[r].awaiting
    /\ sync' = [sync EXCEPT ![r] = Await(@)]
    /\ UNCHANGED <<upstream, deployed, store, now, requests, outcomes, responses>>
    /\ UNCHANGED <<pricingVars, readVars>>

\* axios.get of a variation page is called (part_002 lines 169-173)
RequestVariationPage(r) ==
    /\ sync[r].pc = "variations"
    /\ ~sync[r].awaiting
    /\ sync' = [sync EXCEPT ![r] = Await(@)]
    /\ UNCHANGED <<upstream, deployed, store, now, requests, outcomes, responses>>
    /\ UNCHANGED <<pricingVars, readVars>>

\* the product page arrives (part_002 lines 211-219)
ProductPageOk(r) ==
    LET s == Resumed(sync[r])
        products == PageOf(upstream.products, s.page)
    IN  /\ s.pc = "page"
        /\ sync[r].awaiting
        /\ upstream.page_failing # s.page
        /\ requests' = Append(requests,
               [run |-> r, kind |-> "products", product |-> Num(0), page |-> s.page,
                len |-> Len(products), failed |-> FALSE])
        /\ sync' = [sync EXCEPT ![r] =
               IF Len(products) = 0 THEN [s EXCEPT !.pc = "respond"]
               ELSE [s EXCEPT !.totalFetched = @ + Len(products),
                              !.products = products, !.idx = 1, !.pc = "product"]]
        /\ UNCHANGED <<upstream, deployed, store, now, outcomes, responses>>
        /\ UNCHANGED <<pricingVars, readVars>>

\* the request for a product page fails: the outer catch answers 500
\* (part_002 lines 345-350)
ProductPageFail(r) ==
    LET s == Resumed(sync[r])
    IN  /\ s.pc = "page"
        /\ sync[r].awaiting
        /\ upstream.page_failing = s.page
        /\ requests' = Append(requests,
               [run |-> r, kind |-> "products", product |-> Num(0), page |-> s.page,
                len |-> 0, failed |-> TRUE])
        /\ sync' = [sync EXCEPT ![r] = CatchSyncError(s)]
        /\ store' = TableAfterSyncError(store)
        /\ responses' = [responses EXCEPT ![r] = [NoSummary EXCEPT !.sent = TRUE, !.rows = store']]
        /\ UNCHANGED <<upstream, deployed, now, outcomes>>
        /\ UNCHANGED <<pricingVars, readVars>>

\* if (!belongs) continue (part_002 lines 224-228)
SkipProduct(r) ==
    LET s == sync[r]
    IN  /\ s.pc = "product"
        /\ ~Belongs(Current(s))
        /\ outcomes' = Append(outcomes, Outcome(r, Current(s), "skipped", <<>>, Null))
        /\ sync' = [sync EXCEPT ![r] = NextProduct(s)]
        /\ UNCHANGED <<upstream, deployed, store, now, requests, responses>>
        /\ UNCHANGED <<pricingVars, readVars>>

\* a variable product: fetchVariationsFromWoo is entered (part_002 lines
\* 234-235, 163-165)
StartVariations(r) ==
    LET s == sync[r]
    IN  /\ s.pc = "product"
        /\ Belongs(Current(s))
        /\ HasVariations(Current(s))
        /\ sync' = [sync EXCEPT ![r] =
               [s EXCEPT !.fetched = TRUE, !.vpage = 1, !.all = <<>>, !.pc = "variations"]]
        /\ UNCHANGED <<upstream, deployed, store, now, requests, outcomes, responses>>
        /\ UNCHANGED <<pricingVars, readVars>>

\* not a variable product: straight to the db.query (part_002 lines 246-314)
PrepareUpsert(r) ==
    LET s == sync[r]
    IN  /\ s.pc = "product"
        /\ Belongs(Current(s))
        /\ ~HasVariations(Current(s))
        /\ sync' = [sync EXCEPT ![r] = [s EXCEPT !.fetched = FALSE, !.all = <<>>, !.pc = "upsert"]]
        /\ UNCHANGED <<upstream, deployed, store, now, requests, outcomes, responses>>
        /\ UNCHANGED <<pricingVars, readVars>>

\* a variation page arrives (part_002 lines 169-177)
VariationPageOk(r) ==
    LET s == Resumed(sync[r])
        data == PageOf(Current(s).remote_variations, s.vpage)
        all == s.all \o data
    IN  /\ s.pc = "variations"
        /\ sync[r].awaiting
        /\ Current(s).variation_page_failing # s.vpage
        /\ requests' = Append(requests,
               [run |-> r, kind |-> "variations", product |-> Current(s).id,
                page |-> s.vpage, len |-> Len(data), failed |-> FALSE])
        /\ sync' = [sync EXCEPT ![r] =
               IF Len(data) = 0 THEN Resolved(s, s.all)
               ELSE IF ShortVariationPage(Len(data)) THEN Resolved(s, all)
               ELSE [s EXCEPT !.all = all, !.vpage = @ + 1]]
        /\ UNCHANGED <<upstream, deployed, store, now, outcomes, responses>>
        /\ UNCHANGED <<pricingVars, readVars>>

\* the request for a variation page fails (part_002 lines 179-183)
VariationPageFail(r) ==
    LET s == Resumed(sync[r])
    IN  /\ s.pc = "variations"
        /\ sync[r].awaiting
        /\ Current(s).variation_page_failing = s.vpage
        /\ requests' = Append(requests,
               [run |-> r, kind |-> "variations", product |-> Current(s).id,
                page |-> s.vpage, len |-> 0, failed |-> TRUE])
        /\ sync' = [sync EXCEPT ![r] = Resolved(s, CatchVariationError(s.all))]
        /\ UNCHANGED <<upstream, deployed, store, now, outcomes, responses>>
        /\ UNCHANGED <<pricingVars, readVars>>

\* the database executes the statement (part_002 lines 314-316)
UpsertOk(r) ==
    LET s == sync[r]
        params == Params(deployed, Current(s), s.fetched, s.all)
    IN  /\ s.pc = "upsert"
        /\ ~Current(s).store_rejects
        /\ ~Current(s).store_unreachable
        /\ store' = Upsert(deployed, store, params, now)
        /\ now' = now + 1
        /\ outcomes' = Append(outcomes,
               Outcome(r, Current(s), "synced", s.all, params.stock_quantity))
        /\ sync' = [sync EXCEPT ![r] = NextProduct([s EXCEPT !.totalSynced = @ + 1])]
        /\ UNCHANGED <<upstream, deployed, requests, responses>>
        /\ UNCHANGED <<pricingVars, readVars>>

\* db.query throws, the statement refused or the database out of reach
\* (part_002 lines 317-320)
UpsertFail(r) ==
    LET s == sync[r]
        params == Params(deployed, Current(s), s.fetched, s.all)
    IN  /\ s.pc = "upsert"
        /\ Current(s).store_rejects \/ Current(s).store_unreachable
        /\ outcomes' = Append(outcomes,
               Outcome(r, Current(s), "error", s.all, params.stock_quantity))
        /\ sync' = [sync EXCEPT ![r] = CatchProductError(s)]
        /\ UNCHANGED <<upstream, deployed, store, now, requests, responses>>
        /\ UNCHANGED <<pricingVars, readVars>>

\* out of the while loop: the summary is sent (part_002 lines 327-343;
\* part_001 lines 824-830, after reading the table)
Respond(r) ==
    LET s == sync[r]
    IN  /\ s.pc = "respond"
        /\ sync' = [sync EXCEPT ![r] = [s EXCEPT !.pc = "done"]]
        /\ responses' = [responses EXCEPT ![r] =
               [sent |-> TRUE, success |-> TRUE, total_fetched |-> s.totalFetched,
                total_synced |-> s.totalSynced, total_errors |-> s.totalErrors,
                rows |-> store]]
        /\ UNCHANGED <<upstream, deployed, store, now, requests, outcomes>>
        /\ UNCHANGED <<pricingVars, readVars>>

Next ==
    \/ \E r \in DOMAIN sync : StartSync(r)
    \/ \E r \in DOMAIN sync : RequestProductPage(r)
    \/ \E r \in DOMAIN sync : RequestVariationPage(r)
    \/ \E r \in DOMAIN sync : ProductPageOk(r)
    \/ \E r \in DOMAIN sync : ProductPageFail(r)
    \/ \E r \in DOMAIN sync : SkipProduct(r)
    \/ \E r \in DOMAIN sync : StartVariations(r)
    \/ \E r \in DOMAIN sync : PrepareUpsert(r)
    \/ \E r \in DOMAIN sync : VariationPageOk(r)
    \/ \E r \in DOMAIN sync : VariationPageFail(r)
    \/ \E r \in DOMAIN sync : UpsertOk(r)
    \/ \E r \in DOMAIN sync : UpsertFail(r)
    \/ \E r \in DOMAIN sync : Respond(r)

Spec == Init /\ [][Next]_vars

---------------------------------------------------------------------------
(* One /sync-products request, against catalogues of several pages with    *)
(* the requests and writes that fail.                                      *)

\* the products the catalogues of one run are made of
RunShapes ==
    {Product("simple", RentalCategories, Num(40), <<>>, 0, FALSE),
     Product("simple", OtherCategories, Num(40), <<>>, 0, FALSE),
     [Product("simple", RentalCategories, Num(40), <<>>, 0, FALSE) EXCEPT
         !.store_unreachable = TRUE],
     Product("variable", RentalCategories, Num(40), Stocked(PerPage + 1), 2, FALSE)}

RunFixtures ==
    {[products |-> Catalogue(shapes), page_failing |-> failing] :
        shapes \in SeqsUpTo(RunShapes, MaxProducts), failing \in {0, 1, 2}}
    \cup {[products |-> Catalogue(<<p>>), page_failing |-> 0] : p \in LoneProducts}

InitRun ==
    /\ upstream \in RunFixtures
    /\ sync = <<IdleRun>>
    /\ responses = <<NoSummary>>
    /\ deployed \in SyncVariants
    /\ store = <<>>
    /\ now = 1
    /\ requests = <<>>
    /\ outcomes = <<>>
    /\ PricingIdle
    /\ ReadIdle

SpecRun == InitRun /\ [][Next]_vars

\* the same run with progress: the handler is entered once the request has
\* arrived, and the event loop resumes it when the promise it awaits settles
SpecRunFair == InitRun /\ [][Next]_vars /\ WF_vars(Next)

---------------------------------------------------------------------------
(* Two /sync-products requests served at the same time, and a remote       *)
(* catalogue that is edited once while they run.  upstream carries a third *)
(* field here, edit: the edit still to come ("none" when there is none).   *)

\* the product after its remote edit: renamed, repriced, restocked
Edited(product) ==
    [product EXCEPT
        !.name = Str("Bike 2"),
        !.price = Str("15.5"),
        !.stock_quantity = Num(70),
        !.acf = AcfObject([t \in Tiers |-> IF t = "precio_1_2" THEN Str("12") ELSE Undef])]

\* the catalogue after the edit: its first product is changed, taken out of
\* the rental category, or deleted
EditedCatalogue(products, edit) ==
    CASE edit = "change" -> [products EXCEPT ![1] = Edited(@)]
      [] edit = "leave" -> [products EXCEPT ![1] = [@ EXCEPT !.categories = OtherCategories]]
      [] edit = "delete" -> Tail(products)
      [] OTHER -> products

Edits == {"change", "leave", "delete"}

\* one product or two; with an edit to come, or with a request or a write
\* that fails
OverlapFixtures ==
    {[products |-> Catalogue(<<Product("simple", RentalCategories, Num(40), <<>>, 0, FALSE)>>),
      page_failing |-> 0, edit |-> edit] : edit \in Edits \cup {"none"}}
    \cup {[products |-> Catalogue(<<Product("simple", RentalCategories, Num(40), <<>>, 0, rejects)>>),
           page_failing |-> failing, edit |-> "none"] :
            rejects \in BOOLEAN, failing \in {0, 1}}
    \cup {[products |-> Catalogue(<<Product("variable", RentalCategories, Null, Stocked(1),
                                            failing, FALSE)>>),
           page_failing |-> 0, edit |-> edit] : failing \in {0, 1}, edit \in {"none", "change"}}
    \cup {[products |-> Catalogue(<<Product("simple", RentalCategories, Num(40), <<>>, 0, FALSE),
                                    Product("simple", categories, Num(40), <<>>, 0, FALSE)>>),
           page_failing |-> 0, edit |-> edit] :
            categories \in {RentalCategories, OtherCategories}, edit \in {"none", "change", "delete"}}

InitOverlap ==
    /\ upstream \in OverlapFixtures
    /\ sync = [r \in {1, 2} |-> IdleRun]
    /\ responses = [r \in {1, 2} |-> NoSummary]
    /\ deployed \in SyncVariants
    /\ store = <<>>
    /\ now = 1
    /\ requests = <<>>
    /\ outcomes = <<>>
    /\ PricingIdle
    /\ ReadIdle

\* the handler is entered while another request may still be served: it
\* takes no lock (part_002 lines 187-208)
StartAnySync(r) ==
    /\ sync[r].pc = "idle"
    /\ sync' = [sync EXCEPT ![r] = [@ EXCEPT !.pc = "page", !.page = 1]]
    /\ UNCHANGED <<upstream, deployed, store, now, requests, outcomes, responses>>
    /\ UNCHANGED <<pricingVars, readVars>>

\* the shop edits its catalogue
EditRemote ==
    /\ upstream.edit \in Edits
    /\ upstream' = [upstream EXCEPT
           !.products = EditedCatalogue(@, upstream.edit), !.edit = "none"]
    /\ UNCHANGED <<deployed, store, now, sync, requests, outcomes, responses>>
    /\ UNCHANGED <<pricingVars, readVars>>

NextOverlap ==
    \/ \E r \in DOMAIN sync : StartAnySync(r)
    \/ EditRemote
    \/ \E r \in DOMAIN sync : RequestProductPage(r)
    \/ \E r \in DOMAIN sync : RequestVariationPage(r)
    \/ \E r \in DOMAIN sync : ProductPageOk(r)
    \/ \E r \in DOMAIN sync : ProductPageFail(r)
    \/ \E r \in DOMAIN sync : SkipProduct(r)
    \/ \E r \in DOMAIN sync : StartVariations(r)
    \/ \E r \in DOMAIN sync : PrepareUpsert(r)
    \/ \E r \in DOMAIN sync : VariationPageOk(r)
    \/ \E r \in DOMAIN sync : VariationPageFail(r)
    \/ \E r \in DOMAIN sync : UpsertOk(r)
    \/ \E r \in DOMAIN sync : UpsertFail(r)
    \/ \E r \in DOMAIN sync : Respond(r)

SpecOverlap == InitOverlap /\ [][NextOverlap]_vars

---------------------------------------------------------------------------
(* The read handlers, GET /products and GET /products/:id, served from the *)
(* table while sync requests are served and the shop edits its catalogue.  *)
(* The table may hold rows of the first version of the server (part_000),  *)
(* whose /sync-products stores every product of the shop.                  *)

\* the elements of the categories column of a stored row
CategoryItems(row) ==
    IF row.categories.val.k = "array" THEN row.categories.val.items ELSE <<>>

\* LOWER(text) and String.toLowerCase on the words the model uses
Lower(v) ==
    CASE v = Str("BTT") -> Str("btt")
      [] v = Str("Publish") -> Str("publish")
      [] OTHER -> v

\* the decimal text of a number (in tenths) starts with the digits 319
RECURSIVE StartsWithRentalId(_)
StartsWithRentalId(n) ==
    IF n < ALUGUERES_CATEGORY_ID * 10 THEN FALSE
    ELSE IF n \div 10 = ALUGUERES_CATEGORY_ID THEN TRUE
    ELSE StartsWithRentalId(n \div 10)

\* EXISTS (... jsonb_array_elements(categories) AS cat WHERE (cat->>'id')::int = $1)
HasCategoryId_part002(row) ==
    \E i \in DOMAIN CategoryItems(row) :
        LET cat == CategoryItems(row)[i]
        IN  cat.k = "object" /\ ToNumber(cat.id) = Num(ALUGUERES_CATEGORY_ID * 10)

\* categories::jsonb @> '[{"id": 319}]': an element whose id is the number 319
HasCategoryId_part001(row) ==
    \E i \in DOMAIN CategoryItems(row) :
        LET cat == CategoryItems(row)[i]
        IN  cat.k = "object" /\ cat.id = Num(ALUGUERES_CATEGORY_ID * 10)

\* categories::text LIKE '%"id":319%', on the text JSON.stringify wrote: an
\* id whose digits start with 319
HasCategoryId_index(row) ==
    \E i \in DOMAIN CategoryItems(row) :
        LET cat == CategoryItems(row)[i]
        IN  cat.k = "object" /\ cat.id.k = "number" /\ StartsWithRentalId(cat.id.n)

\* EXISTS (... WHERE LOWER(cat2->>'slug') = $n), $n the category in lower
\* case (part_002); categories::text ILIKE '%"slug":"<category>"%' (part_001)
HasSlug(row, category) ==
    \E i \in DOMAIN CategoryItems(row) :
        LET cat == CategoryItems(row)[i]
        IN  cat.k = "object" /\ cat.slug.k = "string" /\ Lower(cat.slug) = Lower(category)

\* woocommerce_id = $1 OR id = $1
HasId(row, id) == row.woocommerce_id = id \/ row.id = id

\* the WHERE clause of GET /products/:id
SelectedById_part002(row, id) ==
    HasId(row, id) /\ HasCategoryId_part002(row) /\ Lower(row.status) = Str("publish")

SelectedById_part001(row, id) == HasId(row, id)

SelectedById_index(row, id) ==
    HasId(row, id) /\ HasCategoryId_index(row) /\ row.status = Str("publish")

SelectedById(variant, row, id) ==
    CASE variant = "part_001" -> SelectedById_part001(row, id)
      [] variant = "part_002" -> SelectedById_part002(row, id)
      [] OTHER -> SelectedById_index(row, id)

\* the WHERE clause of GET /products
Listed_part002(row, category) ==
    /\ HasCategoryId_part002(row)
    /\ Lower(row.status) = Str("publish")
    /\ (Truthy(category) /\ category # Str("all")) => HasSlug(row, category)

Listed_part001(row, category) ==
    IF Truthy(category) THEN HasSlug(row, category) /\ row.status = Str("publish")
    ELSE HasCategoryId_part001(row) /\ row.status = Str("publish")

Listed(variant, row, category) ==
    IF variant = "part_001" THEN Listed_part001(row, category)
    ELSE Listed_part002(row, category)

\* the row as the driver hands it over: part_001 and part_002 query the JSON
\* columns as jsonb, which arrives decoded; index.js queries them as text
AsRead(variant, row) ==
    IF variant = "index" THEN row
    ELSE [row EXCEPT !.categories = ColDecoded(@.val), !.images = ColDecoded(@.val),
                     !.acf_data = ColDecoded(@.val), !.meta_data = ColDecoded(@.val),
                     !.variations_ids = ColDecoded(@.val)]

\* the files with a GET /products/:id, and those whose GET /products is
\* modelled
ByIdVariants == {"index", "part_001", "part_002"}
ListVariants == {"part_001", "part_002"}

\* ids asked for: an external id, a row id, an id no row has
QueryIds == {Num(1020), Num(10), Num(9990)}

\* ?category= of GET /products: none, 'all', a slug
QueryCategories == {Undef, Str("all"), Str("BTT")}

\* GET /products/:id (part_002 lines 403-430, part_001 lines 635-669,
\* index.js lines 331-373): 404 when the query selects no row, else the
\* first row selected, processed
GetProductById ==
    \E variant \in ByIdVariants, id \in QueryIds :
        LET selected == {i \in DOMAIN store : SelectedById(variant, store[i], id)}
        IN  /\ query' = [kind |-> "by-id", variant |-> variant, id |-> id, category |-> Undef]
            /\ IF selected = {}
               THEN answer' = [sent |-> TRUE, status |-> 404, rows |-> {}, body |-> {}]
               ELSE \E i \in selected :
                        answer' = [sent |-> TRUE, status |-> 200, rows |-> {store[i]},
                                   body |-> {processProductForResponse(
                                                 variant, AsRead(variant, store[i]))}]
            /\ UNCHANGED <<rowIn, respOut, pricingVars, syncVars>>

\* GET /products (part_002 lines 355-400, part_001 lines 582-632): the rows
\* selected, processed; the order of the list is left out
GetProducts ==
    \E variant \in ListVariants, category \in QueryCategories :
        LET selected == {i \in DOMAIN store : Listed(variant, store[i], category)}
        IN  /\ query' = [kind |-> "list", variant |-> variant, id |-> Undef,
                         category |-> category]
            /\ answer' = [sent |-> TRUE, status |-> 200,
                          rows |-> {store[i] : i \in selected},
                          body |-> {processProductForResponse(
                                        variant, AsRead(variant, store[i])) : i \in selected}]
            /\ UNCHANGED <<rowIn, respOut, pricingVars, syncVars>>

\* the products part_000 upserts: all of the response, up to the first the
\* database refuses (the error leaves the loop, part_000 lines 28-81)
RECURSIVE UpsertedBy_part000(_)
UpsertedBy_part000(products) ==
    IF products = <<>> \/ Head(products).store_rejects THEN <<>>
    ELSE <<Head(products)>> \o UpsertedBy_part000(Tail(products))

RECURSIVE UpsertAll(_, _, _)
UpsertAll(rows, products, t) ==
    IF products = <<>> THEN rows
    ELSE UpsertAll(Upsert("part_000", rows, Params("part_000", Head(products), FALSE, <<>>), t),
                   Tail(products), t + 1)

\* /sync-products of part_000 (lines 17-81), served before the later files
\* were deployed: one request without a category, every product upserted
SyncProducts_part000 ==
    LET products == UpsertedBy_part000(upstream.products)
    IN  /\ store = <<>>
        /\ \A r \in DOMAIN sync : sync[r].pc = "idle"
        /\ upstream.page_failing # 1
        /\ products # <<>>
        /\ store' = UpsertAll(store, products, now)
        /\ now' = now + Len(products)
        /\ outcomes' = outcomes \o
               [i \in DOMAIN products |->
                   Outcome(0, products[i], "synced", <<>>,
                           Params("part_000", products[i], FALSE, <<>>).stock_quantity)]
        /\ requests' = Append(requests,
               [run |-> 0, kind |-> "products", product |-> Num(0), page |-> 1,
                len |-> Len(upstream.products), failed |-> FALSE])
        /\ UNCHANGED <<upstream, deployed, sync, responses>>
        /\ UNCHANGED <<pricingVars, readVars>>

\* products synced alone and then read: one whose status the shop spells
\* with a capital, and products without tiers whose price is set, empty or
\* missing
ReadBackProducts ==
    {[Product("simple", RentalCategories, Num(40), <<>>, 0, FALSE) EXCEPT
          !.status = Str("Publish")]}
    \cup {[Product("simple", RentalCategories, Num(40), <<>>, 0, FALSE) EXCEPT
               !.acf = EmptyAcf, !.price = price] : price \in RemotePrices}

\* two products, the second outside the rental category, with an edit of the
\* first to come; or one product, with a request or a write that fails; or
\* one product to read back
ServiceFixtures ==
    {[products |-> Catalogue(<<Product("simple", RentalCategories, Num(40), <<>>, 0, FALSE),
                               Product("simple", OtherCategories, Num(40), <<>>, 0, FALSE)>>),
      page_failing |-> 0, edit |-> edit] : edit \in Edits \cup {"none"}}
    \cup {[products |-> Catalogue(<<Product("simple", RentalCategories, Num(40), <<>>, 0, rejects)>>),
           page_failing |-> IF rejects THEN 0 ELSE 1, edit |-> "none"] : rejects \in BOOLEAN}
    \cup {[products |-> Catalogue(<<Product("variable", RentalCategories, Null, Stocked(1),
                                            failing, FALSE)>>),
           page_failing |-> 0, edit |-> "none"] : failing \in {0, 1}}
    \cup {[products |-> Catalogue(<<p>>), page_failing |-> 0, edit |-> "none"] :
            p \in ReadBackProducts}

InitService ==
    /\ upstream \in ServiceFixtures
    /\ sync = [r \in 1..MaxRuns |-> IdleRun]
    /\ responses = [r \in 1..MaxRuns |-> NoSummary]
    /\ deployed \in SyncVariants
    /\ store = <<>>
    /\ now = 1
    /\ requests = <<>>
    /\ outcomes = <<>>
    /\ PricingIdle
    /\ ReadIdle

NextService ==
    \/ SyncProducts_part000
    \/ EditRemote
    \/ GetProductById
    \/ GetProducts
    \/ \E r \in DOMAIN sync : StartSync(r)
    \/ \E r \in DOMAIN sync : RequestProductPage(r)
    \/ \E r \in DOMAIN sync : RequestVariationPage(r)
    \/ \E r \in DOMAIN sync : ProductPageOk(r)
    \/ \E r \in DOMAIN sync : ProductPageFail(r)
    \/ \E r \in DOMAIN sync : SkipProduct(r)
    \/ \E r \in DOMAIN sync : StartVariations(r)
    \/ \E r \in DOMAIN sync : PrepareUpsert(r)
    \/ \E r \in DOMAIN sync : VariationPageOk(r)
    \/ \E r \in DOMAIN sync : VariationPageFail(r)
    \/ \E r \in DOMAIN sync : UpsertOk(r)
    \/ \E r \in DOMAIN sync : UpsertFail(r)
    \/ \E r \in DOMAIN sync : Respond(r)

SpecService == InitService /\ [][NextService]_vars

---------------------------------------------------------------------------
(* Claims about extractACFPricing (checked under SpecPricing).             *)

\* the spec's "found" in custom-fields: truthy, non-empty, numeric-coercible
FoundInCustomFields(t) ==
    /\ AcfIsObject(acfIn)
    /\ Truthy(acfIn.f[t])
    /\ NotEmptyValue(acfIn.f[t])
    /\ ~IsNaN(ToNumber(acfIn.f[t]))

MetaItems == IF metaIn.k = "array" THEN metaIn.items ELSE <<>>

\* the metadata entries that carry a usable price for tier t
MetaCandidates(t) ==
    {i \in 1..Len(MetaItems) :
        /\ MetaItems[i].k = "object"
        /\ MetaItems[i].key \in {Str(t), Str("_" \o t)}
        /\ ToNumber(MetaItems[i].value).k = "number"
        /\ ToNumber(MetaItems[i].value).n > 0}

\* C3: when at least one tier key is found in custom-fields, every tier of the
\* result comes from custom-fields (the tiers found there, with their values) and
\* none from metadata; part_001 and part_002.
C3_AllOrNothing ==
    (/\ pricingOut.called
     /\ pricingOut.variant \in {"part_001", "part_002"}
     /\ \E t \in Tiers : FoundInCustomFields(t))
    => /\ ~pricingOut.threw
       /\ \A t \in Tiers :
            /\ FoundInCustomFields(t) => pricingOut.pricing[t] # Absent
            /\ pricingOut.pricing[t] # Absent =>
                 /\ acfIn.f[t] # Undef
                 /\ ToNumber(pricingOut.pricing[t]) = ToNumber(acfIn.f[t])

\* custom-fields with tier-2 and tier-3 only, metadata with a tier-1 price:
\* the result holds tier-2 and tier-3 only
C3_Witness ==
    /\ pricingOut.called
    /\ pricingOut.variant = "part_002"
    /\ acfIn.k = "object"
    /\ acfIn.f["precio_1_2"] = Undef
    /\ FoundInCustomFields("precio_3_6")
    /\ FoundInCustomFields("precio_7_mais")
    /\ MetaCandidates("precio_1_2") # {}
    /\ pricingOut.pricing["precio_1_2"] = Absent
    /\ pricingOut.pricing["precio_3_6"] # Absent
    /\ pricingOut.pricing["precio_7_mais"] # Absent

C15_PositiveTiers ==
    (pricingOut.called /\ pricingOut.variant = "part_001") =>
        /\ ~pricingOut.threw
        /\ \A t \in Tiers :
             pricingOut.pricing[t] # Absent =>
                 /\ pricingOut.pricing[t].k = "number"
                 /\ pricingOut.pricing[t].n > 0

\* the ways of reordering a list of n entries
Reorderings(n) ==
    {f \in [1..n -> 1..n] : \A i, j \in 1..n : f[i] = f[j] => i = j}

Permuted(items, f) == [i \in 1..Len(items) |-> items[f[i]]]

\* C22: with no tier key holding a value in custom-fields, the result of
\* extractACFPricing of part_001 does not depend on the order of the metadata
\* list: every permutation of the list gives the same mapping, also when
\* several entries match the same tier with different values.
C22_OrderIndependent ==
    (/\ pricingOut.called
     /\ pricingOut.variant = "part_001"
     /\ metaIn.k = "array"
     /\ ~(AcfIsObject(acfIn) /\ \E t \in Tiers : NotEmptyValue(acfIn.f[t])))
    => \A f \in Reorderings(Len(metaIn.items)) :
           extractACFPricing_part001(acfIn, ArrayOf(Permuted(metaIn.items, f))).pricing
               = pricingOut.pricing

---------------------------------------------------------------------------
(* Claims about processProductForResponse (checked under SpecRead).        *)

\* C1: for every row, in every variant, processProductForResponse returns a
\* record (no exception escapes) whose id is a non-empty string.
C1_NonEmptyId ==
    respOut.called =>
        /\ ~respOut.r.threw
        /\ respOut.r.id.k = "string"
        /\ respOut.r.id.s # ""

\* C1 restricted to part_001 and part_002
C1_NonEmptyId_Guarded ==
    (respOut.called /\ respOut.variant # "index") =>
        /\ ~respOut.r.threw
        /\ respOut.r.id.k = "string"
        /\ respOut.r.id.s # ""

\* C8: a row whose categories column holds malformed JSON gives, in every
\* variant, a record (no exception) whose category field is 'general'.
C8_MalformedCategories ==
    (respOut.called /\ rowIn.categories = MalformedCategories) =>
        /\ ~respOut.r.threw
        /\ respOut.r.category = Str("general")

\* the tier-1 price extractACFPricing resolves from the row's persisted
\* custom-fields and metadata (undefined when it resolves none)
RowTier1(variant, row) ==
    Get(extractACFPricing(variant, parseJSONSafe(row.acf_data, EmptyAcf),
                          parseJSONSafe(row.meta_data, EmptyArray)).pricing,
        "precio_1_2")

\* C16: display price precedence.  In every variant the price of the record
\* returned is the tier-1 price re-derived by extractACFPricing from the row's
\* persisted custom-fields and metadata when one is resolved; otherwise the
\* persisted price when it is present and not empty; otherwise the persisted
\* regular price; otherwise 0.
C16_PricePrecedence ==
    respOut.called =>
        LET tier1 == RowTier1(respOut.variant, rowIn)
        IN  /\ ~respOut.r.threw
            /\ respOut.r.price =
                   IF tier1 # Undef THEN ParseFloat(tier1)
                   ELSE IF NotEmptyValue(rowIn.price) THEN ParseFloat(rowIn.price)
                   ELSE IF NotEmptyValue(rowIn.regular_price)
                       THEN ParseFloat(rowIn.regular_price)
                   ELSE Num(0)

\* the same on the rows processProductForResponse processes without an
\* internal error, for part_001 and part_002
C16_PricePrecedence_Guarded ==
    (respOut.called /\ respOut.variant # "index" /\ ~respOut.r.degraded) =>
        LET tier1 == RowTier1(respOut.variant, rowIn)
        IN  /\ ~respOut.r.threw
            /\ respOut.r.price =
                   IF tier1 # Undef THEN ParseFloat(tier1)
                   ELSE IF NotEmptyValue(rowIn.price) THEN ParseFloat(rowIn.price)
                   ELSE IF NotEmptyValue(rowIn.regular_price)
                       THEN ParseFloat(rowIn.regular_price)
                   ELSE Num(0)

\* C18: identifier precedence.  On every return path of
\* processProductForResponse of part_001 and part_002, the degraded record
\* included, the id is the row's woocommerce_id when it is present, otherwise
\* the row's id when it is present, otherwise the sentinel '0' or 'unknown'.
C18_IdPrecedence ==
    (respOut.called /\ respOut.variant \in {"part_001", "part_002"}) =>
        /\ ~respOut.r.threw
        /\ IF Truthy(rowIn.woocommerce_id) THEN respOut.r.id = ToStr(rowIn.woocommerce_id)
           ELSE IF Truthy(rowIn.id) THEN respOut.r.id = ToStr(rowIn.id)
           ELSE respOut.r.id \in {Str("0"), Str("unknown")}

\* the same on the rows processed without an internal error
C18_IdPrecedence_Guarded ==
    (respOut.called /\ respOut.variant \in {"part_001", "part_002"} /\ ~respOut.r.degraded) =>
        /\ ~respOut.r.threw
        /\ IF Truthy(rowIn.woocommerce_id) THEN respOut.r.id = ToStr(rowIn.woocommerce_id)
           ELSE IF Truthy(rowIn.id) THEN respOut.r.id = ToStr(rowIn.id)
           ELSE respOut.r.id \in {Str("0"), Str("unknown")}

---------------------------------------------------------------------------
(* Claims about the sync run (checked under Spec).                         *)

\* the remote product with the given id
RemoteProduct(id) ==
    upstream.products[CHOOSE i \in DOMAIN upstream.products : upstream.products[i].id = id]

\* the entries of a run in the two histories
OutcomesOf(r) == {i \in DOMAIN outcomes : outcomes[i].run = r}
ProductRequestsOf(r) ==
    {i \in DOMAIN requests : requests[i].run = r /\ requests[i].kind = "products"}
VariationRequestsOf(r, id) ==
    {i \in DOMAIN requests :
        requests[i].run = r /\ requests[i].kind = "variations" /\ requests[i].product = id}

\* the number of items the given requests delivered
Delivered(entries) == Cardinality({<<i, j>> \in entries \X (1..MaxProducts + MaxVariations) :
                                      j <= requests[i].len})

\* a row without its timestamps
NonTimestamp(row) == [row EXCEPT !.created_at = Null, !.updated_at = Null]

\* C2: idempotence of the sync run.  When /sync-products is answered twice in
\* sequence against the same remote catalogue, the two answers are alike and
\* report the same synced count, the table has as many rows after the second
\* run as after the first, and every row is the same but for its timestamps.
C2_Idempotence ==
    \A r \in DOMAIN sync :
        (r > 1 /\ responses[r].sent /\ responses[r - 1].sent) =>
            /\ responses[r].success = responses[r - 1].success
            /\ responses[r].total_synced = responses[r - 1].total_synced
            /\ Len(responses[r].rows) = Len(responses[r - 1].rows)
            /\ \A i \in DOMAIN responses[r].rows :
                   NonTimestamp(responses[r].rows[i]) = NonTimestamp(responses[r - 1].rows[i])

\* a second run has answered with a summary after upserting two products
\* again; where timestamps are kept, a row shows it was rewritten
C2_Witness ==
    /\ Len(sync) >= 2
    /\ responses[2].sent /\ responses[2].success /\ responses[1].success
    /\ responses[2].total_synced >= 2
    /\ Len(responses[2].rows) >= 2
    /\ deployed = "part_002" =>
           \E i \in DOMAIN responses[2].rows :
               responses[2].rows[i].updated_at # responses[2].rows[i].created_at

\* what a stock_quantity counts for: a number as itself, anything else as 0
StockValue(v) ==
    IF v.k = "number" THEN v.n
    ELSE IF v.k = "string" /\ ToNumber(v).k = "number" THEN ToNumber(v).n
    ELSE 0

RECURSIVE SumOfStockValues(_)
SumOfStockValues(variations) ==
    IF variations = <<>> THEN 0
    ELSE StockValue(Head(variations).stock_quantity) + SumOfStockValues(Tail(variations))

\* C5: stock aggregation.  The stock_quantity persisted for a product is the
\* sum of its resolved variations' stock_quantity, a null, missing or
\* non-numeric one counting 0, when at least one variation was resolved, and
\* otherwise the product's own stock_quantity, missing or null counting 0.
C5_StockAggregation ==
    \A i \in DOMAIN outcomes :
        outcomes[i].result = "synced" =>
            LET e == outcomes[i]
                product == RemoteProduct(e.product)
            IN  /\ e.stock_quantity =
                       IF e.variations # <<>> THEN Num(SumOfStockValues(e.variations))
                       ELSE Num(StockValue(product.stock_quantity))
                /\ \E k \in DOMAIN store :
                       /\ store[k].woocommerce_id = e.product
                       /\ store[k].stock_quantity = e.stock_quantity

\* the variations [3, 0, null, 2] were resolved and 5 is persisted
C5_Witness ==
    \E i \in DOMAIN outcomes :
        /\ outcomes[i].result = "synced"
        /\ [j \in DOMAIN outcomes[i].variations |-> outcomes[i].variations[j].stock_quantity]
               = <<Num(30), Num(0), Null, Num(20)>>
        /\ \E k \in DOMAIN store :
               /\ store[k].woocommerce_id = outcomes[i].product
               /\ store[k].stock_quantity = Num(50)

\* the product's category list contains the rental category id
ContainsRentalCategory(product) ==
    /\ product.categories.k = "array"
    /\ \E i \in DOMAIN product.categories.items :
           product.categories.items[i].id = Num(ALUGUERES_CATEGORY_ID * 10)

\* C6: category re-filter.  A product of a remote product page whose category
\* list does not contain the rental category id is counted in fetched (every
\* product a page delivered is), is counted in neither synced nor errors, and
\* no row for it is written.
C6_CategoryRefilter ==
    /\ \A i \in DOMAIN outcomes :
           ~ContainsRentalCategory(RemoteProduct(outcomes[i].product)) =>
               outcomes[i].result = "skipped"
    /\ \A k \in DOMAIN store : ContainsRentalCategory(RemoteProduct(store[k].woocommerce_id))
    /\ \A r \in DOMAIN sync :
           /\ sync[r].totalFetched = Delivered(ProductRequestsOf(r))
           /\ sync[r].totalSynced + sync[r].totalErrors =
                  Cardinality({i \in OutcomesOf(r) : outcomes[i].result # "skipped"})

\* a run ended after a page delivered a product outside the rental category
\* next to one it synced
C6_Witness ==
    \E r \in DOMAIN sync :
        /\ responses[r].sent /\ responses[r].success
        /\ responses[r].total_synced >= 1
        /\ responses[r].total_fetched > responses[r].total_synced + responses[r].total_errors
        /\ \E i \in OutcomesOf(r) :
               /\ outcomes[i].result = "skipped"
               /\ ~ContainsRentalCategory(RemoteProduct(outcomes[i].product))

\* two requests of one pagination loop: the product loop of a run, or the
\* variation loop of a product of a run
SameLoop(i, j) ==
    /\ requests[i].run = requests[j].run
    /\ requests[i].kind = requests[j].kind
    /\ requests[i].product = requests[j].product

\* C7: pagination termination.  In the product loop and in the variation
\* loop, after a page with fewer items than the page size (none included) no
\* further page is requested, and the items of a short page are processed:
\* every product delivered gets its outcome and every variation delivered is
\* among the variations resolved.
C7_PaginationTermination ==
    /\ \A i, j \in DOMAIN requests :
           (i < j /\ SameLoop(i, j) /\ ~requests[i].failed) => requests[i].len >= PerPage
    /\ \A r \in DOMAIN sync :
           responses[r].success =>
               Cardinality(OutcomesOf(r)) = Delivered(ProductRequestsOf(r))
    /\ \A i \in DOMAIN outcomes :
           outcomes[i].result # "skipped" =>
               Len(outcomes[i].variations) =
                   Delivered(VariationRequestsOf(outcomes[i].run, outcomes[i].product))

\* a run ended whose last product page and one of whose last variation pages
\* were short and not empty
C7_Witness ==
    \E r \in DOMAIN sync :
        /\ responses[r].sent /\ responses[r].success
        /\ \E i \in ProductRequestsOf(r) :
               requests[i].page >= 2 /\ requests[i].len > 0 /\ requests[i].len < PerPage
        /\ \E i \in DOMAIN requests :
               /\ requests[i].run = r /\ requests[i].kind = "variations"
               /\ requests[i].page >= 2 /\ requests[i].len > 0 /\ requests[i].len < PerPage

\* the variations fetchVariationsFromWoo resolves for a product: all of them,
\* or those of the pages before the one whose request fails
ExpectedVariations(product) ==
    LET all == product.remote_variations
        before == (product.variation_page_failing - 1) * PerPage
    IN  IF ~HasVariations(product) THEN <<>>
        ELSE IF product.variation_page_failing > 0 /\ before <= Len(all)
        THEN SubSeq(all, 1, before)
        ELSE all

\* the columns an upsert writes
Written(row) == [row EXCEPT !.id = Null, !.created_at = Null, !.updated_at = Null]

\* C9: per-product failure isolation.  A product whose upsert fails adds
\* exactly one to errors and nothing to synced; the run is not aborted and
\* goes on with the next product and the later pages; every other product
\* gets the outcome and the row it gets when nothing fails.
C9_FailureIsolation ==
    /\ \A r \in DOMAIN sync :
           /\ sync[r].totalErrors =
                  Cardinality({i \in OutcomesOf(r) : outcomes[i].result = "error"})
           /\ sync[r].totalSynced =
                  Cardinality({i \in OutcomesOf(r) : outcomes[i].result = "synced"})
           /\ \A i, j \in OutcomesOf(r) : outcomes[i].product = outcomes[j].product => i = j
           /\ sync[r].pc = "failed" => upstream.page_failing = sync[r].page
           /\ responses[r].success =>
                  \A k \in DOMAIN upstream.products :
                      \E i \in OutcomesOf(r) : outcomes[i].product = upstream.products[k].id
    /\ \A i \in DOMAIN outcomes :
           LET e == outcomes[i]
               product == RemoteProduct(e.product)
           IN  IF product.store_rejects /\ ContainsRentalCategory(product)
               THEN e.result = "error"
               ELSE /\ e.result = (IF ContainsRentalCategory(product)
                                   THEN "synced" ELSE "skipped")
                    /\ e.result = "synced" =>
                           LET alone == Written(Inserted(deployed, <<>>,
                                            Params(deployed, product, HasVariations(product),
                                                   ExpectedVariations(product)), 0))
                           IN  \E k \in DOMAIN store :
                                   /\ store[k].woocommerce_id = e.product
                                   /\ Written(store[k]) = alone

\* a run ended with a summary after the upsert of the first product of page 1
\* failed and a product of page 2 was synced
C9_Witness ==
    \E r \in DOMAIN sync :
        /\ responses[r].sent /\ responses[r].success
        /\ responses[r].total_errors >= 1
        /\ \E i, j \in OutcomesOf(r) :
               /\ i < j
               /\ outcomes[i].result = "error" /\ outcomes[i].product = Num(1010)
               /\ outcomes[j].result = "synced" /\ outcomes[j].product = Num(1030)

\* C10: variation-fetch degradation.  When the request for a variation page
\* fails, fetchVariationsFromWoo hands its caller the variations of the pages
\* before it (none when it is the first page), the caller goes on to the
\* upsert of that product, and the run is not aborted.
C10_VariationDegradation ==
    \A i \in DOMAIN requests :
        (requests[i].kind = "variations" /\ requests[i].failed) =>
            LET r == requests[i].run
                product == RemoteProduct(requests[i].product)
                before == SubSeq(product.remote_variations, 1,
                                 (requests[i].page - 1) * PerPage)
            IN  /\ sync[r].pc # "failed" \/ upstream.page_failing = sync[r].page
                /\ \/ /\ sync[r].pc = "upsert"
                      /\ Current(sync[r]).id = product.id
                      /\ sync[r].all = before
                   \/ \E k \in OutcomesOf(r) :
                          /\ outcomes[k].product = product.id
                          /\ outcomes[k].variations = before
                          /\ outcomes[k].result =
                                 (IF product.store_rejects THEN "error" ELSE "synced")

\* a run ended with a summary after the second variation page of a product
\* failed and the product was synced with the variations of the first page
C10_Witness ==
    \E i \in DOMAIN requests :
        /\ requests[i].kind = "variations" /\ requests[i].failed /\ requests[i].page = 2
        /\ responses[requests[i].run].success
        /\ \E k \in OutcomesOf(requests[i].run) :
               /\ outcomes[k].product = requests[i].product
               /\ outcomes[k].result = "synced"
               /\ Len(outcomes[k].variations) = PerPage

\* the last request a run has made
LastRequestOf(r) ==
    CHOOSE i \in DOMAIN requests :
        requests[i].run = r /\ \A j \in DOMAIN requests : requests[j].run = r => j <= i

\* C11: a failing product page aborts the run.  When the request for a
\* product page fails, first page or later, it is the last request the run
\* makes, the run upserts nothing beyond the products the pages before it
\* delivered (each has its one outcome already), and the answer is a failure,
\* not a summary.
C11_FetchFailureAborts ==
    \A i \in DOMAIN requests :
        (requests[i].kind = "products" /\ requests[i].failed) =>
            LET r == requests[i].run
            IN  /\ LastRequestOf(r) = i
                /\ sync[r].pc = "failed"
                /\ responses[r].sent /\ ~responses[r].success
                /\ Cardinality(OutcomesOf(r)) = Delivered(ProductRequestsOf(r))
                /\ \A j, k \in OutcomesOf(r) :
                       outcomes[j].product = outcomes[k].product => j = k

\* the request for page 2 failed after a product of page 1 was synced, and the
\* next run has since started
C11_Witness ==
    \E i \in DOMAIN requests :
        /\ requests[i].kind = "products" /\ requests[i].failed /\ requests[i].page = 2
        /\ requests[i].run = 1
        /\ \E j \in OutcomesOf(1) : outcomes[j].result = "synced"
        /\ Len(sync) >= 2 /\ sync[2].pc # "idle"

\* the tier-1 price extractACFPricing resolves from the remote product's
\* custom-fields and metadata (undefined when it resolves none)
RemoteTier1(product) ==
    Get(extractACFPricing_part001(
            IF AcfIsObject(product.acf) THEN product.acf ELSE EmptyAcf,
            OrEmptyArray(product.meta_data)).pricing,
        "precio_1_2")

\* C17: the price the sync run of part_001 persists for a product is the
\* tier-1 price extractACFPricing resolves from the remote product's
\* custom-fields and metadata when there is one, otherwise the product's own
\* price field (as a number), otherwise 0.
C17_PersistedPrice ==
    deployed = "part_001" =>
        \A k \in DOMAIN store :
            LET product == RemoteProduct(store[k].woocommerce_id)
            IN  store[k].price =
                    IF RemoteTier1(product) # Undef THEN ToNumber(RemoteTier1(product))
                    ELSE IF product.price # Undef THEN ToNumber(product.price)
                    ELSE Num(0)

\* a product with a price of its own and no tier-1 price was synced, and its
\* row holds that price
C17_Witness ==
    /\ deployed = "part_001"
    /\ Len(store) = 1
    /\ RemoteTier1(RemoteProduct(store[1].woocommerce_id)) = Undef
    /\ RemoteProduct(store[1].woocommerce_id).price = Str("12")
    /\ store[1].price = Num(120)
    /\ responses[1].sent /\ responses[1].success

---------------------------------------------------------------------------
(* Claims about one sync run (checked under SpecRun).                      *)

\* the variation loop of the run's current product has ended: its last
\* request failed or was answered with a short page
VariationLoopEnded(r) ==
    LET mine == VariationRequestsOf(r, Current(sync[r]).id)
    IN  /\ mine # {}
        /\ \E i \in mine :
               /\ \A j \in mine : j <= i
               /\ requests[i].failed \/ requests[i].len < PerPage
        /\ Len(sync[r].all) = Delivered(mine)

\* C21: within one sync run the work is strictly sequential.  At most one
\* remote request of the run is in flight, and only while the handler waits
\* for it; the variation pages of a product are all fetched before its
\* upsert; a product is started only when every product before it has its
\* outcome; and a product page is requested only when every product of the
\* pages before it has its outcome.
C21_StrictlySequential ==
    \A r \in DOMAIN sync :
        LET s == sync[r]
            done == Cardinality(OutcomesOf(r))
            delivered == Delivered(ProductRequestsOf(r))
        IN  /\ s.inflight <= 1
            /\ s.inflight = 1 <=> s.awaiting
            /\ s.awaiting => s.pc \in {"page", "variations"}
            /\ s.pc = "upsert" =>
                   /\ s.inflight = 0
                   /\ s.fetched => VariationLoopEnded(r)
            /\ s.pc \in {"product", "variations", "upsert"} =>
                   done = delivered - Len(s.products) + s.idx - 1
            /\ s.pc = "page" => done = delivered

\* the run waits for the second variation page of the second product of a
\* page, the first product having its outcome
C21_Witness ==
    /\ sync[1].pc = "variations" /\ sync[1].awaiting /\ sync[1].inflight = 1
    /\ sync[1].vpage = 2 /\ sync[1].idx = 2
    /\ Cardinality(OutcomesOf(1)) = 1
    /\ Len(requests) = 2

\* C24: a failure to reach the store is fatal to the run.  Once the upsert of
\* a product has failed because the store is unreachable, the run has ended
\* with the failure response: it requests and writes nothing more, and the
\* failure is not counted in total_errors.
C24_StoreFailureFatal ==
    \A r \in DOMAIN sync :
        \A i \in OutcomesOf(r) :
            (outcomes[i].result = "error" /\ RemoteProduct(outcomes[i].product).store_unreachable)
            => /\ sync[r].pc = "failed"
               /\ sync[r].totalErrors = 0
               /\ responses[r].sent /\ ~responses[r].success

\* C25: no rollback on abort.  When the request for a product page after the
\* first fails, the step that aborts the run changes no row and removes
\* none, and every product the run upserted from the pages before has its
\* row, with the values that upsert wrote.
C25_NoRollbackOnAbort ==
    [][\A r \in DOMAIN sync :
           (sync[r].pc # "failed" /\ sync'[r].pc = "failed" /\ sync[r].page > 1) =>
               /\ store' = store
               /\ \A i \in OutcomesOf(r) :
                      outcomes[i].result = "synced" =>
                          LET product == RemoteProduct(outcomes[i].product)
                              written == Written(Inserted(deployed, <<>>,
                                             Params(deployed, product, HasVariations(product),
                                                    outcomes[i].variations), 0))
                          IN  \E k \in DOMAIN store' :
                                  /\ store'[k].woocommerce_id = product.id
                                  /\ Written(store'[k]) = written]_vars

\* the request for page 2 has failed, and the table holds the rows of the
\* products of page 1
C25_Witness ==
    /\ sync[1].pc = "failed" /\ sync[1].page = 2
    /\ responses[1].sent /\ ~responses[1].success
    /\ sync[1].totalSynced = PerPage
    /\ Len(store) = PerPage
    /\ responses[1].rows = store

\* the products of a run that the category test left out
SkippedBy(r) == Cardinality({i \in OutcomesOf(r) : outcomes[i].result = "skipped"})

\* C26: counter accounting.  At every point of a run synced + errors is at
\* most fetched; every product the run has dealt with has added one to
\* exactly one of synced, errors and skipped (the products left out by the
\* category test); and in the summary of a run that completes, fetched =
\* synced + errors + skipped = the number of products all the pages
\* requested have returned.
C26_CounterAccounting ==
    \A r \in DOMAIN sync :
        LET s == sync[r]
        IN  /\ s.totalSynced + s.totalErrors <= s.totalFetched
            /\ s.totalSynced + s.totalErrors + SkippedBy(r) = Cardinality(OutcomesOf(r))
            /\ s.totalFetched = Delivered(ProductRequestsOf(r))
            /\ (responses[r].sent /\ responses[r].success) =>
                   /\ responses[r].total_fetched =
                          responses[r].total_synced + responses[r].total_errors + SkippedBy(r)
                   /\ responses[r].total_fetched = Delivered(ProductRequestsOf(r))

\* a run of two pages has completed with one product synced, one failed
\* and one left out
C26_Witness ==
    /\ responses[1].sent /\ responses[1].success
    /\ responses[1].total_fetched = 3
    /\ responses[1].total_synced = 1
    /\ responses[1].total_errors = 1
    /\ SkippedBy(1) = 1
    /\ Cardinality(ProductRequestsOf(1)) = 2

\* no request of the fixture fails
NoFailingRequest ==
    /\ upstream.page_failing = 0
    /\ \A k \in DOMAIN upstream.products : upstream.products[k].variation_page_failing = 0

\* floor(N / P) + 1 for the N products of the catalogue
PagesExpected == (Len(upstream.products) \div PerPage) + 1

\* C27: termination and page sequence (checked under SpecRunFair).  Against
\* a catalogue of N products that does not change, with pages of P and no
\* failing request, the run requests the product pages 1, 2, ..., k in
\* increasing order, each once, with k = floor(N / P) + 1 (a last, empty
\* page when N is a positive multiple of P, one page when N = 0), and then
\* ends with a summary.
C27_PagesThenSummary ==
    /\ [](NoFailingRequest =>
             /\ \A i \in ProductRequestsOf(1) :
                    requests[i].page = Cardinality({j \in ProductRequestsOf(1) : j <= i})
             /\ Cardinality(ProductRequestsOf(1)) <= PagesExpected)
    /\ (NoFailingRequest ~>
             (/\ sync[1].pc = "done"
              /\ responses[1].sent /\ responses[1].success
              /\ Cardinality(ProductRequestsOf(1)) = PagesExpected))

\* a catalogue of exactly one full page: the run asked for page 1 and for
\* the empty page 2, and answered with a summary
C27_Witness ==
    /\ NoFailingRequest
    /\ Len(upstream.products) = PerPage
    /\ sync[1].pc = "done" /\ responses[1].success
    /\ Cardinality(ProductRequestsOf(1)) = 2
    /\ \E i \in ProductRequestsOf(1) : requests[i].page = 2 /\ requests[i].len = 0

\* the store refuses the upsert of the product, or cannot be reached for it
StoreFails(product) == product.store_rejects \/ product.store_unreachable

\* C28: a variation fetch that fails is never counted as a product error.
\* After the request for a variation page of a product has failed, the
\* product goes to its upsert; errors counts only the products whose upsert
\* failed; and when the upsert succeeds the product is counted in synced and
\* its row holds, as variation ids and stock snapshot, the variations of the
\* pages before the failure and no other, with stock_quantity their sum, or
\* the product's own stock_quantity when there is none.
C28_VariationFailureNotAnError ==
    \A i \in DOMAIN requests :
        (requests[i].kind = "variations" /\ requests[i].failed) =>
            LET r == requests[i].run
                product == RemoteProduct(requests[i].product)
                got == SubSeq(product.remote_variations, 1, (requests[i].page - 1) * PerPage)
                mine == {k \in OutcomesOf(r) : outcomes[k].product = product.id}
            IN  /\ sync[r].totalErrors =
                       Cardinality({k \in OutcomesOf(r) :
                                       /\ outcomes[k].result # "skipped"
                                       /\ StoreFails(RemoteProduct(outcomes[k].product))})
                /\ IF mine = {}
                   THEN sync[r].pc = "upsert" /\ Current(sync[r]).id = product.id
                   ELSE \A k \in mine :
                            ~StoreFails(product) =>
                                /\ outcomes[k].result = "synced"
                                /\ sync[r].totalSynced >= 1
                                /\ \E n \in DOMAIN store :
                                       LET row == store[n]
                                       IN  /\ row.woocommerce_id = product.id
                                           /\ row.variations_ids.val =
                                                  ArrayOf([j \in DOMAIN got |-> got[j].id])
                                           /\ Len(row.variations_stock.val.items) = Len(got)
                                           /\ \A j \in DOMAIN got :
                                                  row.variations_stock.val.items[j].id = got[j].id
                                           /\ row.stock_quantity =
                                                  IF got # <<>> THEN Num(SumOfStockValues(got))
                                                  ELSE Num(StockValue(product.stock_quantity))

\* the first variation page of a product failed: the product is synced with
\* no variation and its own stock, and the run has counted no error
C28_Witness ==
    \E i \in DOMAIN requests :
        /\ requests[i].kind = "variations" /\ requests[i].failed /\ requests[i].page = 1
        /\ sync[1].pc = "done" /\ sync[1].totalErrors = 0 /\ sync[1].totalSynced = 1
        /\ Len(store) = 1
        /\ store[1].woocommerce_id = requests[i].product
        /\ store[1].variations_ids.val = EmptyArray
        /\ store[1].stock_quantity = Num(40)

\* no request and no upsert of the fixture fails
NoFailure ==
    /\ NoFailingRequest
    /\ \A k \in DOMAIN upstream.products : ~StoreFails(upstream.products[k])

\* C29: completeness.  When a run completes against a catalogue that does
\* not change and nothing fails, every product of the catalogue that has
\* the rental category, on whichever page it was delivered, has a row keyed
\* by its id that holds the values the run computes for it.
C29_Completeness ==
    (responses[1].sent /\ responses[1].success /\ NoFailure) =>
        \A k \in DOMAIN upstream.products :
            LET product == upstream.products[k]
                computed == Written(Inserted(deployed, <<>>,
                                Params(deployed, product, HasVariations(product),
                                       product.remote_variations), 0))
            IN  ContainsRentalCategory(product) =>
                    /\ Cardinality({n \in DOMAIN store :
                                       store[n].woocommerce_id = product.id}) = 1
                    /\ \E n \in DOMAIN store :
                           /\ store[n].woocommerce_id = product.id
                           /\ Written(store[n]) = computed

\* three rental products over two pages, all with their rows when the
\* summary is sent
C29_Witness ==
    /\ responses[1].sent /\ responses[1].success /\ NoFailure
    /\ Len(upstream.products) = 3
    /\ \A k \in DOMAIN upstream.products : ContainsRentalCategory(upstream.products[k])
    /\ Len(store) = 3
    /\ Cardinality(ProductRequestsOf(1)) = 2

---------------------------------------------------------------------------
(* Claims about overlapping sync runs (checked under SpecOverlap).         *)

\* the upserts executed for an external identifier, in order of execution
UpsertsOf(wid) ==
    {i \in DOMAIN outcomes : outcomes[i].product = wid /\ outcomes[i].result = "synced"}

\* C12: external-identifier uniqueness.  Whatever runs were served, one
\* after the other or at the same time, the table holds at most one row per
\* woocommerce_id: a product already present is updated in place (its row
\* keeps its place and its id), never inserted again.
C12_UniqueExternalId ==
    /\ \A i, j \in DOMAIN store :
           store[i].woocommerce_id = store[j].woocommerce_id => i = j
    /\ \A i \in DOMAIN store :
           /\ store[i].id = Num(i * 10)
           /\ UpsertsOf(store[i].woocommerce_id) # {}
    /\ \A i \in DOMAIN outcomes :
           outcomes[i].result = "synced" =>
               \E k \in DOMAIN store : store[k].woocommerce_id = outcomes[i].product

\* both runs, served at the same time, have upserted the same product and
\* the table holds one row
C12_Witness ==
    /\ sync[1].pc = "respond" /\ sync[2].pc = "respond"
    /\ Len(outcomes) = 2
    /\ outcomes[1].result = "synced" /\ outcomes[2].result = "synced"
    /\ outcomes[1].product = outcomes[2].product
    /\ outcomes[1].run # outcomes[2].run
    /\ Len(store) = 1

\* the product with the given id as the run fetched it
FetchedBy(r, wid) ==
    sync[r].products[CHOOSE k \in DOMAIN sync[r].products : sync[r].products[k].id = wid]

\* C13: overlapping runs, last write wins.  Two runs served at the same time
\* take no lock; however their upserts of one woocommerce_id interleave,
\* none of them fails (an upsert fails only where the database refuses the
\* row itself), and the row stored is, in every column but the timestamps,
\* the row of the upsert executed last.
C13_LastWriteWins ==
    /\ \A i \in DOMAIN outcomes :
           outcomes[i].result = "error" =>
               FetchedBy(outcomes[i].run, outcomes[i].product).store_rejects
    /\ \A k \in DOMAIN store :
           LET wid == store[k].woocommerce_id
               last == CHOOSE i \in UpsertsOf(wid) : \A j \in UpsertsOf(wid) : j <= i
               product == FetchedBy(outcomes[last].run, wid)
           IN  Written(store[k]) =
                   Written(Inserted(deployed, <<>>,
                       Params(deployed, product, HasVariations(product),
                              outcomes[last].variations), 0))

\* the catalogue was edited between the two runs' requests for the page; the
\* run that fetched after the edit upserted first, the other one last, and
\* the row holds what the latter fetched
C13_Witness ==
    /\ Len(outcomes) = 2
    /\ outcomes[1].result = "synced" /\ outcomes[2].result = "synced"
    /\ outcomes[1].product = outcomes[2].product
    /\ outcomes[1].run = 2 /\ outcomes[2].run = 1
    /\ sync[2].pc = "respond"
    /\ FetchedBy(1, outcomes[1].product).name = Str("Bike")
    /\ FetchedBy(2, outcomes[1].product).name = Str("Bike 2")
    /\ Len(store) = 1 /\ store[1].name = Str("Bike")

---------------------------------------------------------------------------
(* Claims about the read handlers and the table they read (checked under   *)
(* SpecService).                                                           *)

\* the row's persisted category list contains the rental category id
RowInRentalCategory(row) ==
    \E i \in DOMAIN CategoryItems(row) :
        /\ CategoryItems(row)[i].k = "object"
        /\ ToNumber(CategoryItems(row)[i].id) = Num(ALUGUERES_CATEGORY_ID * 10)

\* the step serves a read request of the given kind
Served(kind) == <<query, answer>>' # <<query, answer>> /\ query'.kind = kind

\* C14: GET /products/:id, in every file that has it, answers not found and
\* returns no product when no row has the requested id as woocommerce_id or
\* id, and also when the rows that have it do not contain the rental category
\* id in their category list.
C14_NotFoundOutsideCategory ==
    [][Served("by-id") =>
          ((\A i \in DOMAIN store :
                HasId(store[i], query'.id) => ~RowInRentalCategory(store[i]))
              => (answer'.status = 404 /\ answer'.rows = {} /\ answer'.body = {}))]_vars

\* C20: every product GET /products returns, with or without ?category=,
\* from part_001 or part_002, has the rental category id in its persisted
\* category list.
C20_ListInRentalCategory ==
    (answer.sent /\ query.kind = "list") =>
        \A row \in answer.rows : RowInRentalCategory(row)

\* C23: the status filter of the read queries agrees with the form in which
\* the sync run stores the status.  When GET /products or GET /products/:id
\* of a file is served from rows its /sync-products wrote, a row that the
\* query would select if its status were stored in lower case is selected
\* as it is stored: the list returns it, the lookup by id answers 200.
C23_StatusMatchesOnRead ==
    [][(/\ Served("list") \/ Served("by-id")
        /\ query'.variant \in ListVariants
        /\ deployed = query'.variant)
       => \A i \in DOMAIN store :
              LET row == store[i]
                  lowered == [row EXCEPT !.status = Lower(@)]
              IN  IF query'.kind = "list"
                  THEN Listed(query'.variant, lowered, query'.category)
                           => row \in answer'.rows
                  ELSE SelectedById(query'.variant, lowered, query'.id)
                           => answer'.status = 200]_vars

\* C30: sync-then-read price.  Every row the sync run writes has a price
\* that is neither null nor empty, so when a row is read back and no tier-1
\* price is resolved from it, the price processProductForResponse returns
\* is the persisted price, never the regular price, also when the shop's
\* price was empty or missing and its regular price is positive.
C30_DisplayPriceIsPersisted ==
    /\ \A n \in DOMAIN store : NotEmptyValue(store[n].price)
    /\ (answer.sent /\ query.variant \in ListVariants) =>
           \A row \in answer.rows :
               LET read == AsRead(query.variant, row)
                   shown == processProductForResponse(query.variant, read)
               IN  /\ shown \in answer.body
                   /\ RowTier1(query.variant, read) = Undef =>
                          shown.price = ParseFloat(row.price)

\* a product whose price is empty in the shop and whose regular price is
\* 15.5 was synced and read back by part_002: the record shows the price 0
C30_Witness ==
    /\ answer.sent /\ query.kind = "by-id" /\ query.variant = "part_002"
    /\ deployed = "part_002"
    /\ \E row \in answer.rows :
           /\ RemoteProduct(row.woocommerce_id).price = Str("")
           /\ row.price = Num(0)
           /\ row.regular_price = Str("15.5")
           /\ RowTier1("part_002", AsRead("part_002", row)) = Undef
    /\ \A shown \in answer.body : shown.price = Num(0)

\* C19: no deletion.  Whatever sync requests and read requests are served,
\* and whatever the shop does to its catalogue, a row of the table is never
\* removed, and it changes only in an upsert of its own woocommerce_id: a
\* product that was synced and then disappears from the catalogue, or leaves
\* the rental category, keeps its row with the values of its last upsert.
C19_NoDeletion ==
    [][/\ Len(store') >= Len(store)
       /\ \A i \in DOMAIN store :
            \/ store'[i] = store[i]
            \/ /\ store'[i].woocommerce_id = store[i].woocommerce_id
               /\ store'[i].id = store[i].id
               /\ \E j \in (Len(outcomes) + 1)..Len(outcomes') :
                      /\ outcomes'[j].product = store[i].woocommerce_id
                      /\ outcomes'[j].result = "synced"]_vars

\* the first product was synced by the first request and then deleted in the
\* shop; the second request has run to its end without it, and a read
\* request is answered with its row, as the first request wrote it
C19_Witness ==
    /\ \A i \in DOMAIN upstream.products : upstream.products[i].id # Num(1010)
    /\ UpsertsOf(Num(1010)) # {}
    /\ \A i \in UpsertsOf(Num(1010)) : outcomes[i].run = 1
    /\ sync[2].pc = "done" /\ sync[2].totalFetched = 1
    /\ Len(store) = 1 /\ store[1].woocommerce_id = Num(1010) /\ store[1].name = Str("Bike")
    /\ answer.sent /\ query.kind = "by-id" /\ answer.status = 200
    /\ answer.rows = {store[1]}

===========================================================================
